---- MODULE Spec2Model ----
(***************************************************************************)
(* Transcript pipeline of wannli/webtv: the store record of one transcript *)
(* (status, content, pipeline_lock, error_message), the speech job at the  *)
(* speech service, and the workers that execute pollTranscription and the  *)
(* pipeline run a poll starts in the background (src/lib/speakers.ts,      *)
(* store layer in src/unnamed/part_000, stages of identifySpeakers in      *)
(* src/lib/speaker-identification.ts).                                     *)
(*                                                                         *)
(* Every store call is one SQL statement and is one atomic step; a worker  *)
(* can be interleaved with the others at every await.                      *)
(*                                                                         *)
(* Time: timestamps are kept relative to the present, in units of the lock *)
(* timeout (30 minutes).  Now is 0, a marker written k ticks ago is -k.    *)
(* Markers older than the cutoff are indistinguishable to the code, so the *)
(* marker saturates one unit below the cutoff.  One store call takes less  *)
(* than one unit.                                                          *)
(***************************************************************************)
EXTENDS Integers, FiniteSets, Sequences, TLC

\* the concurrent requests: each is a pollTranscription call followed by the
\* pipeline run that the call starts in the background
Workers == {"w1", "w2"}

\* number of callers that issue tryAcquirePipelineLock at the same time
NumCallers == 3

Callers == 1..NumCallers

\* PIPELINE_LOCK_TIMEOUT_MS, in units of 30 minutes
PIPELINE_LOCK_TIMEOUT == 1

\* SQL NULL in a text column
NULL == "NULL"

\* pipeline_lock IS NULL; a marker is the one-element sequence of its timestamp
NoLock == <<>>

\* new Date(): the present
Now == 0

\* cutoff = Date.now() - PIPELINE_LOCK_TIMEOUT_MS
Cutoff == Now - PIPELINE_LOCK_TIMEOUT

\* the oldest marker value kept apart
Oldest == Cutoff - 1

TranscriptStatus ==
  {"transcribing", "transcribed", "identifying_speakers", "analyzing_topics", "completed", "error"}

VARIABLES
  status,          \* transcripts.status of the record
  content,         \* transcripts.content: which of its keys hold data, and of which run
  pipeline_lock,   \* transcripts.pipeline_lock: NoLock or <<timestamp>>
  error_message,   \* transcripts.error_message: NULL or a message
  job,             \* state of the job at the speech service
  pc,              \* where each worker stands in pollTranscription / runPipeline
  err,             \* the exception a run carries into its catch block
  assign,          \* what the speaker-assignment completion call of this run gave
  topics,          \* outcome of the topic block of identifySpeakers in this run
  call,            \* concurrent tryAcquirePipelineLock calls: [st, start]
  returned,        \* stage of the PollResult each pollTranscription call returned
  stored,          \* how many times raw paragraphs were fetched and saved
  holder,          \* the worker whose run set the marker that is stored, or "none"
  step,            \* where the identifySpeakers call that is followed stands
  paragraphs,      \* its argument: the raw paragraphs
  parsed,          \* parsed.paragraphs of the speaker-assignment response
  resegmented,     \* the results of the resegmentation tasks
  rebuilt,         \* newParagraphs and newMapping after the rebuild
  filtered,        \* the transcript after the off-record block
  finalParagraphs, \* finalParagraphs
  finalMapping,    \* finalMapping
  topicsRecord,    \* topics of identifySpeakers
  paragraphTopics, \* paragraphTopics of identifySpeakers
  completions,     \* what the completion calls of stages 4.3 and 4.5 returned
  thrown,          \* the exception identifySpeakers ended with, or NULL
  transcripts,     \* the rows of the transcripts table, by transcript_id
  runner           \* where the poll and the run of each of these transcripts stand

\* the variables of the pipeline around identifySpeakers
pipeline ==
  <<status, content, pipeline_lock, error_message, job, pc, err, assign, topics, call, returned,
    stored, holder>>

\* the variables of identifySpeakers
ident ==
  <<step, paragraphs, parsed, resegmented, rebuilt, filtered, finalParagraphs, finalMapping,
    topicsRecord, paragraphTopics, completions, thrown>>

\* the variables of the table of several transcripts
table == <<transcripts, runner>>

vars == <<pipeline, stored, holder, ident, table>>

store == <<status, content, pipeline_lock, error_message>>

----------------------------------------------------------------------------
(* Store layer *)

\* variant: the UPDATE carries no condition on pipeline_lock
LockAvailableAlways(lock) == TRUE

\* variant: a marker exactly as old as the timeout already counts as stale
LockAvailableInclusive(lock) == lock = NoLock \/ lock[1] <= Cutoff

\* WHERE ... (pipeline_lock IS NULL OR pipeline_lock < cutoff)
LockAvailable(lock) == lock = NoLock \/ lock[1] < Cutoff

\* UPDATE transcripts SET pipeline_lock = now WHERE ...; rowsAffected > 0
tryAcquirePipelineLock(lock) ==
  IF LockAvailable(lock)
    THEN [acquired |-> TRUE, lock |-> <<Now>>]
    ELSE [acquired |-> FALSE, lock |-> lock]

\* variant: the UPDATE does not touch pipeline_lock
releasePipelineLockNoop(lock) == lock

\* UPDATE transcripts SET pipeline_lock = NULL
releasePipelineLock(lock) == NoLock

\* UPDATE transcripts SET status = ?, error_message = ?   (errorMessage ?? null)
updateTranscriptStatus(s, msg) ==
  /\ status' = s
  /\ error_message' = msg
  /\ UNCHANGED <<content, pipeline_lock>>

\* INSERT ... ON CONFLICT DO UPDATE SET status, language_code, content
saveTranscript(s, c) ==
  /\ status' = s
  /\ content' = c
  /\ UNCHANGED <<pipeline_lock, error_message>>

\* a key of content without data: absent, or statements: []
Nothing == "none"

\* TranscriptContent: raw_paragraphs is present or not; statements and
\* paragraphs are Nothing or name the run whose result they hold
TranscriptContent(raw, stmts, paras) ==
  [raw_paragraphs |-> raw, statements |-> stmts, paragraphs |-> paras]

\* passage of one time unit as seen by the stored marker
Age(lock) == IF lock = NoLock \/ lock = <<Oldest>> THEN lock ELSE <<lock[1] - 1>>

----------------------------------------------------------------------------
(* Messages of the exceptions that reach runPipeline's catch block *)

MsgAssembly == "AssemblyAI transcription failed"

MsgNoRaw == "No raw paragraphs available"

MsgNoContent == "Failed to parse speaker mappings"

MsgCompletion == "completion request failed"

MsgSyntax == "Unexpected token in JSON"

MsgReseg == "Failed to resegment paragraph"

MsgResegJSON == "Failed to parse resegmentation JSON"

MsgStore == "store request failed"

\* failures of the speaker-assignment call of identifySpeakers
AssignFailures == {MsgCompletion, MsgNoContent, MsgSyntax}

RunPcs ==
  {"r_ident", "r_get", "r_assign", "r_reseg", "r_topics", "r_complete", "r_release",
   "r_catch", "r_catch_release"}

HandlerPcs == {"h_both", "h_status", "h_release"}

PollPcs == {"p_retry", "p_assembly", "p_save", "p_asm_error", "p_acquire"}

\* no pollTranscription call has returned to its client
NoResults == [w \in Workers |-> "none"]

\* no tryAcquirePipelineLock call of the harness is in flight
NoCalls == [st |-> [c \in Callers |-> "idle"], start |-> NoLock]

----------------------------------------------------------------------------
(* Text (src/lib/speaker-identification.ts).  A string is a sequence of    *)
(* one-character strings; null in the function field is the empty sequence *)
(* (the function strings used here are never empty).                       *)

Lower ==
  <<"a", "b", "c", "d", "e", "f", "g", "h", "i", "j", "k", "l", "m",
    "n", "o", "p", "q", "r", "s", "t", "u", "v", "w", "x", "y", "z">>

Upper ==
  <<"A", "B", "C", "D", "E", "F", "G", "H", "I", "J", "K", "L", "M",
    "N", "O", "P", "Q", "R", "S", "T", "U", "V", "W", "X", "Y", "Z">>

Digits == {"0", "1", "2", "3", "4", "5", "6", "7", "8", "9"}

\* the character class [a-z0-9] under the flag i
IsAlnum(c) == c \in Digits \/ \E i \in DOMAIN Lower : c = Lower[i] \/ c = Upper[i]

LowerChar(c) ==
  IF \E i \in DOMAIN Upper : Upper[i] = c
    THEN Lower[CHOOSE i \in DOMAIN Upper : Upper[i] = c]
    ELSE c

\* String.prototype.toLowerCase
toLowerCase(s) == [i \in 1..Len(s) |-> LowerChar(s[i])]

\* String.prototype.includes
includes(s, sub) ==
  \E i \in 0..(Len(s) - Len(sub)) : SubSeq(s, i + 1, i + Len(sub)) = sub

\* text.replace(/[^a-z0-9]/gi, '').toLowerCase()
normalizeText(text) == toLowerCase(SelectSeq(text, IsAlnum))

RECURSIVE Join(_, _)
\* Array.prototype.join over strings
Join(strings, sep) ==
  IF strings = <<>> THEN <<>>
  ELSE IF Len(strings) = 1 THEN strings[1]
  ELSE strings[1] \o sep \o Join(Tail(strings), sep)

\* words.map(w => w.text).join(' ')
WordsText(words) == Join([i \in 1..Len(words) |-> words[i].text], <<" ">>)

----------------------------------------------------------------------------
(* Speakers *)

\* the value of a mapping lookup that finds no entry
Undefined == [undefined |-> TRUE]

Str_chair == <<"c", "h", "a", "i", "r">>

Str_president == <<"p", "r", "e", "s", "i", "d", "e", "n", "t">>

Str_moderator == <<"m", "o", "d", "e", "r", "a", "t", "o", "r">>

Fn_CoChair == <<"C", "o", "-", "C", "h", "a", "i", "r">>

Fn_PRESIDENT == <<"P", "R", "E", "S", "I", "D", "E", "N", "T">>

Fn_Representative == <<"R", "e", "p">>

Fn_null == <<>>

\* SpeakerInfo without the is_off_record key
SpeakerInfo(name, function, affiliation, group) ==
  [name |-> name, function |-> function, affiliation |-> affiliation, group |-> group]

ChairX == SpeakerInfo("X", Fn_CoChair, "IAHWG", NULL)

PresidentY == SpeakerInfo("Y", Fn_PRESIDENT, "GA", NULL)

DelegateX == SpeakerInfo("X", Fn_Representative, "KEN", NULL)

DelegateZ == SpeakerInfo("Z", Fn_Representative, "PRY", "G77")

Unknown == SpeakerInfo(NULL, Fn_null, NULL, NULL)

\* variant: two speakers are the same as soon as their names agree
speakersEqualByName(a, b) == a.name = b.name

\* a.name === b.name && a.function === b.function && ...
speakersEqual(a, b) ==
  /\ a.name = b.name
  /\ a.function = b.function
  /\ a.affiliation = b.affiliation
  /\ a.group = b.group

\* variant: the function is searched as it is written
isChairCaseSensitive(speaker) ==
  /\ speaker # Undefined
  /\ \/ includes(speaker.function, Str_chair)
     \/ includes(speaker.function, Str_president)
     \/ includes(speaker.function, Str_moderator)

\* speaker?.function?.toLowerCase().includes('chair') || ... 'president' || ... 'moderator'
isChair(speaker) ==
  /\ speaker # Undefined
  /\ \/ includes(toLowerCase(speaker.function), Str_chair)
     \/ includes(toLowerCase(speaker.function), Str_president)
     \/ includes(toLowerCase(speaker.function), Str_moderator)

\* truthiness of speaker.is_off_record
OffRecord(speaker) ==
  "is_off_record" \in DOMAIN speaker /\ speaker.is_off_record = "true"

\* a mapping is a function from paragraph indices (from 0) to speakers
At(mapping, i) == IF i \in DOMAIN mapping THEN mapping[i] ELSE Undefined

Put(mapping, k, v) == [i \in DOMAIN mapping \cup {k} |-> IF i = k THEN v ELSE mapping[i]]

EmptyMapping == [i \in {} |-> Undefined]

----------------------------------------------------------------------------
(* Input of identifySpeakers: the raw paragraphs of the speech service *)

\* largest number of raw paragraphs of a transcript
MaxParagraphs == 3

\* ParagraphWord { text, start, end }
Word(text, k) == [text |-> text, start |-> 10 * k, end |-> 10 * k + 5]

\* ParagraphInput { text, start, end, words }
ParagraphOf(words) ==
  [text |-> WordsText(words), start |-> words[1].start, end |-> words[Len(words)].end,
   words |-> words]

\* the i-th raw paragraph: three words, one of them without a letter or digit,
\* no letter used twice in a transcript
RawParagraph(i) ==
  LET base == 3 * (i - 1) IN
    ParagraphOf(<<Word(<<Upper[base + 1], Lower[base + 2]>>, base + 1),
                  Word(<<"-">>, base + 2),
                  Word(<<Lower[base + 3], ",">>, base + 3)>>)

RawParagraphs(n) == [i \in 1..n |-> RawParagraph(i)]

----------------------------------------------------------------------------
(* Stage 4.2: the speaker-assignment response and the initial mapping *)

\* one element of parsed.paragraphs
Entry(index, speaker, multi, off) ==
  [index |-> index, name |-> speaker.name, function |-> speaker.function,
   affiliation |-> speaker.affiliation, group |-> speaker.group,
   has_multiple_speakers |-> multi, is_off_record |-> off]

\* what the completion service says about one paragraph
PlainKinds ==
  {[speaker |-> ChairX, multi |-> FALSE, off |-> FALSE],
   [speaker |-> DelegateX, multi |-> FALSE, off |-> FALSE],
   [speaker |-> Unknown, multi |-> FALSE, off |-> FALSE],
   [speaker |-> Unknown, multi |-> FALSE, off |-> TRUE]}

FlaggedKinds ==
  {[speaker |-> DelegateX, multi |-> TRUE, off |-> FALSE],
   [speaker |-> Unknown, multi |-> TRUE, off |-> TRUE]}

EntriesOf(kinds) ==
  [i \in DOMAIN kinds |-> Entry(i - 1, kinds[i].speaker, kinds[i].multi, kinds[i].off)]

\* responses that list every index of [0, n) once, in order
CompleteResponses(n) == {EntriesOf(kinds) : kinds \in [1..n -> PlainKinds \cup FlaggedKinds]}

\* the response e without its k-th element
Without(e, k) == SubSeq(e, 1, k - 1) \o SubSeq(e, k + 1, Len(e))

\* responses that leave one index out, or list one index a second time
DefectiveResponses(n) ==
  LET plain == {EntriesOf(kinds) : kinds \in [1..n -> PlainKinds]} IN
    {Without(e, k) : e \in plain, k \in 1..n}
      \cup {Append(e, Entry(k - 1, DelegateZ, FALSE, FALSE)) : e \in plain, k \in 1..n}

AssignResponses(n) == CompleteResponses(n) \cup DefectiveResponses(n)

\* { name, function, affiliation, group, is_off_record: para.is_off_record || undefined }
MappingEntry(para) ==
  [name |-> para.name, function |-> para.function, affiliation |-> para.affiliation,
   group |-> para.group,
   is_off_record |-> IF para.is_off_record THEN "true" ELSE "undefined"]

RECURSIVE BuildMapping(_, _)
\* parsed.paragraphs.forEach(para => finalMapping[para.index.toString()] = {...})
BuildMapping(entries, mapping) ==
  IF entries = <<>> THEN mapping
  ELSE BuildMapping(Tail(entries), Put(mapping, Head(entries).index, MappingEntry(Head(entries))))

\* variant: every paragraph is resegmented
toResegmentAll(entries) == [i \in 1..Len(entries) |-> entries[i].index]

\* parsed.paragraphs.filter(p => p.has_multiple_speakers).map(p => p.index)
toResegment(entries) ==
  LET flagged == SelectSeq(entries, LAMBDA p : p.has_multiple_speakers)
  IN  [i \in 1..Len(flagged) |-> flagged[i].index]

----------------------------------------------------------------------------
(* Stage 4.3: resegmentParagraph *)

Segment(text, speaker) ==
  [text |-> text, name |-> speaker.name, function |-> speaker.function,
   affiliation |-> speaker.affiliation, group |-> speaker.group]

\* the completion has no content
NoContent(finish_reason) == [content |-> "none", finish_reason |-> finish_reason]

\* the content is not JSON
Unparsable == [content |-> "text", finish_reason |-> "stop"]

\* the content is a ResegmentationResult
Resegmentation(should_split, confidence, segments) ==
  [content |-> "json", finish_reason |-> "stop", should_split |-> should_split,
   confidence |-> confidence, segments |-> segments]

\* the text of the paragraph cut after its first word
ExactSegments(p) ==
  <<Segment(p.words[1].text, ChairX),
    Segment(WordsText(Tail(p.words)), DelegateX)>>

\* only the first word comes back
ShortSegments(p) == <<Segment(p.words[1].text, ChairX)>>

\* the kinds of answer of the completion service to a resegmentation request
ResegKinds ==
  {"content_filter", "no_content", "unparsable", "keep", "split_low", "split",
   "split_short", "split_none"}

\* the answer of that kind for paragraph p
ResegResponse(p, kind) ==
  CASE kind = "content_filter" -> NoContent("content_filter")
    [] kind = "no_content" -> NoContent("length")
    [] kind = "unparsable" -> Unparsable
    [] kind = "keep" -> Resegmentation(FALSE, "high", <<Segment(p.text, DelegateX)>>)
    [] kind = "split_low" -> Resegmentation(TRUE, "low", ExactSegments(p))
    [] kind = "split" -> Resegmentation(TRUE, "high", ExactSegments(p))
    [] kind = "split_short" -> Resegmentation(TRUE, "high", ShortSegments(p))
    [] kind = "split_none" -> Resegmentation(TRUE, "medium", <<>>)

\* variant: every segment gets the next word, whatever its length
TakeWordsOne(all, wordOffset, words, segLength) ==
  IF wordOffset < Len(all)
    THEN [words |-> <<all[wordOffset + 1]>>, wordOffset |-> wordOffset + 1]
    ELSE [words |-> <<>>, wordOffset |-> wordOffset]

RECURSIVE TakeWords(_, _, _, _)
\* while (wordOffset < paragraph.words.length && matchedNormalized.length < segNormalized.length)
TakeWords(all, wordOffset, words, segLength) ==
  IF wordOffset < Len(all) /\ Len(normalizeText(WordsText(words))) < segLength
    THEN TakeWords(all, wordOffset + 1, Append(words, all[wordOffset + 1]), segLength)
    ELSE [words |-> words, wordOffset |-> wordOffset]

\* variant: every segment gets the words of the paragraph from its first word
MatchSegmentsFromStart(segs, all, wordOffset, acc) ==
  [segments |-> [j \in 1..Len(segs) |-> ParagraphOf(all)],
   speakers |-> [j \in 1..Len(segs) |->
                  SpeakerInfo(segs[j].name, segs[j].function, segs[j].affiliation, segs[j].group)]]

RECURSIVE MatchSegments(_, _, _, _)
\* for (const seg of parsed.segments) { ... }
MatchSegments(segs, all, wordOffset, acc) ==
  IF segs = <<>> THEN acc
  ELSE
    LET seg == Head(segs)
        t == TakeWords(all, wordOffset, <<>>, Len(normalizeText(seg.text)))
        next == IF t.words # <<>>
                  THEN [segments |-> Append(acc.segments, ParagraphOf(t.words)),
                        speakers |-> Append(acc.speakers,
                                      SpeakerInfo(seg.name, seg.function, seg.affiliation, seg.group))]
                  ELSE acc
    IN  MatchSegments(Tail(segs), all, t.wordOffset, next)

\* variant: a split is applied whatever its confidence
KeepsUnsplitWhenSure(result) == ~result.should_split

\* if (!parsed.should_split) ...; if (parsed.confidence === 'low') ...
KeepsUnsplit(result) == ~result.should_split \/ result.confidence = "low"

\* the settled promise of one resegmentParagraph call
resegmentParagraph(paragraph, currentSpeaker, response) ==
  LET unsplit == [throws |-> NULL, segments |-> <<paragraph>>, speakers |-> <<currentSpeaker>>]
  IN
    IF response.content = "none"
      THEN IF response.finish_reason = "content_filter"
             THEN unsplit
             ELSE [throws |-> MsgReseg, segments |-> <<>>, speakers |-> <<>>]
    ELSE IF response.content = "text"
      THEN [throws |-> MsgResegJSON, segments |-> <<>>, speakers |-> <<>>]
    ELSE IF KeepsUnsplit(response)
      THEN unsplit
    ELSE
      LET m == MatchSegments(response.segments, paragraph.words, 0,
                             [segments |-> <<>>, speakers |-> <<>>])
      IN  [throws |-> NULL, segments |-> m.segments, speakers |-> m.speakers]

----------------------------------------------------------------------------
(* Rebuild, off-record filter and grouping: the synchronous part of        *)
(* identifySpeakers between the resegmentation join and the topic block    *)

TypeError == "Cannot read properties of undefined"

\* variant: the first result is taken whatever its index
FindResegFirst(results, i) == IF results = <<>> THEN Undefined ELSE results[1]

\* resegmented.find(r => r.index === i)
FindReseg(results, i) ==
  LET hits == {k \in DOMAIN results : results[k].index = i}
  IN  IF hits = {} THEN Undefined
      ELSE results[CHOOSE k \in hits : \A h \in hits : k <= h]

RECURSIVE PushSegments(_, _, _)
\* for (let j = 0; j < reseg.segments.length; j++) { push; newMapping[currentNewIndex++] = ... }
PushSegments(acc, segments, speakers) ==
  IF segments = <<>> THEN acc
  ELSE PushSegments(
         [paragraphs |-> Append(acc.paragraphs, Head(segments)),
          mapping |-> Put(acc.mapping, Len(acc.paragraphs),
                          IF speakers = <<>> THEN Undefined ELSE Head(speakers))],
         Tail(segments),
         IF speakers = <<>> THEN <<>> ELSE Tail(speakers))

RECURSIVE Rebuild(_, _, _, _, _)
\* for (let i = 0; i < paragraphs.length; i++) { ... }
Rebuild(paras, mapping, results, i, acc) ==
  IF i >= Len(paras) THEN acc
  ELSE
    LET reseg == FindReseg(results, i) IN
      Rebuild(paras, mapping, results, i + 1,
              IF reseg # Undefined
                THEN PushSegments(acc, reseg.segments, reseg.speakers)
                ELSE [paragraphs |-> Append(acc.paragraphs, paras[i + 1]),
                      mapping |-> Put(acc.mapping, Len(acc.paragraphs), At(mapping, i))])

EmptyTranscript == [paragraphs |-> <<>>, mapping |-> EmptyMapping]

\* const speaker = { ...finalMapping[i] }; delete speaker.is_off_record
WithoutFlag(speaker) ==
  SpeakerInfo(speaker.name, speaker.function, speaker.affiliation, speaker.group)

\* variant: the filter keeps every paragraph
FilterKeepsAll(speaker) == TRUE

\* if (!finalMapping[i.toString()].is_off_record)
FilterKeeps(speaker) == ~OffRecord(speaker)

RECURSIVE FilterLoop(_, _, _, _)
\* for (let i = 0; i < finalParagraphs.length; i++) { ... }
FilterLoop(paras, mapping, i, acc) ==
  IF i >= Len(paras) THEN acc
  ELSE FilterLoop(paras, mapping, i + 1,
         IF FilterKeeps(mapping[i])
           THEN [paragraphs |-> Append(acc.paragraphs, paras[i + 1]),
                 mapping |-> Put(acc.mapping, Len(acc.paragraphs), WithoutFlag(mapping[i]))]
           ELSE acc)

\* the off-record block; error is set when a property of undefined is read
FilterOffRecord(t) ==
  IF \E k \in DOMAIN t.mapping : t.mapping[k] = Undefined
    THEN [error |-> TRUE, out |-> t]
  ELSE IF ~\E k \in DOMAIN t.mapping : OffRecord(t.mapping[k])
    THEN [error |-> FALSE, out |-> t]
  ELSE IF \E i \in 0..(Len(t.paragraphs) - 1) : At(t.mapping, i) = Undefined
    THEN [error |-> TRUE, out |-> t]
  ELSE [error |-> FALSE, out |-> FilterLoop(t.paragraphs, t.mapping, 0, EmptyTranscript)]

\* variant: the paragraph is dropped instead of being added to the group
MergeKeepsGroup(currentGroup, para) == currentGroup

\* { text: currentGroup.text + '\n\n' + para.text, start, end: para.end, words: [...] }
Merge(currentGroup, para) ==
  [text |-> currentGroup.text \o <<"\n", "\n">> \o para.text,
   start |-> currentGroup.start, end |-> para.end,
   words |-> currentGroup.words \o para.words]

RECURSIVE GroupLoop(_, _, _, _, _, _)
\* for (let i = 1; i < finalParagraphs.length; i++) { ... } and the last group
GroupLoop(paras, mapping, i, currentGroup, currentSpeaker, acc) ==
  IF i >= Len(paras)
    THEN [paragraphs |-> Append(acc.paragraphs, currentGroup),
          mapping |-> Put(acc.mapping, Len(acc.paragraphs), currentSpeaker)]
  ELSE
    LET para == paras[i + 1]
        speaker == mapping[i]
    IN  IF speakersEqual(currentSpeaker, speaker)
          THEN GroupLoop(paras, mapping, i + 1, Merge(currentGroup, para), currentSpeaker, acc)
          ELSE GroupLoop(paras, mapping, i + 1, para, speaker,
                 [paragraphs |-> Append(acc.paragraphs, currentGroup),
                  mapping |-> Put(acc.mapping, Len(acc.paragraphs), currentSpeaker)])

\* the grouping block; error is set when speakersEqual reads a property of undefined
GroupSpeakers(t) ==
  IF t.paragraphs = <<>> THEN [error |-> FALSE, out |-> t]
  ELSE IF Len(t.paragraphs) > 1
          /\ \E i \in 0..(Len(t.paragraphs) - 1) : At(t.mapping, i) = Undefined
    THEN [error |-> TRUE, out |-> t]
  ELSE [error |-> FALSE,
        out |-> GroupLoop(t.paragraphs, t.mapping, 1, t.paragraphs[1], At(t.mapping, 0),
                          EmptyTranscript)]

----------------------------------------------------------------------------
(* Stage 4.5: defineTopics and tagParagraphsWithTopics *)

Topic(key) == [key |-> key, description |-> "description", color |-> "#94a3b8"]

\* outcomes of a completion call: the request is rejected, the completion
\* has no content, the content is not JSON, or it is the JSON given
Rejected == [content |-> "rejected"]

ContentMissing == [content |-> "none"]

ContentGarbled == [content |-> "text"]

TopicDefinitions(list) == [content |-> "json", topics |-> list]

ParagraphTopicTags(keys) == [content |-> "json", topic_keys |-> keys]

TopicResponses ==
  {Rejected, ContentMissing, ContentGarbled,
   TopicDefinitions(<<>>), TopicDefinitions(<<Topic("k1"), Topic("k2")>>)}

TagResponses ==
  {Rejected, ContentMissing, ContentGarbled,
   ParagraphTopicTags(<<"k1">>), ParagraphTopicTags(<<"k2", "k9">>),
   ParagraphTopicTags(<<"k1", "k2", "k1", "k2">>)}

\* indices of the statements that are not of a chair
Substantive(paras, mapping) ==
  {idx \in 0..(Len(paras) - 1) : ~isChair(At(mapping, idx))}

\* variant: topics are analysed as soon as one statement is not of a chair
TooFewStatementsNone(count) == count < 1

\* if (substantiveStatements.length < 2) return {}
TooFewStatements(count) == count < 2

RECURSIVE ToRecord(_, _)
\* parsed.topics.forEach(topic => topicsRecord[topic.key] = topic)
ToRecord(list, record) ==
  IF list = <<>> THEN record
  ELSE ToRecord(Tail(list), Put(record, Head(list).key, Head(list)))

NoTopics == [k \in {} |-> Topic("")]

NoTags == [i \in {} |-> <<>>]

\* variant: a tagging task has no try/catch
TagTaskUncaught(response) ==
  IF response.content = "json"
    THEN [throws |-> FALSE, topic_keys |-> response.topic_keys]
  ELSE IF response.content = "none"
    THEN [throws |-> FALSE, topic_keys |-> <<>>]
  ELSE [throws |-> TRUE, topic_keys |-> <<>>]

\* try { create; if (!result) return []; JSON.parse } catch { return [] }
TagTask(response) ==
  IF response.content = "json"
    THEN [throws |-> FALSE, topic_keys |-> response.topic_keys]
    ELSE [throws |-> FALSE, topic_keys |-> <<>>]

\* a completion call that was issued and has not returned
Pending == [content |-> "pending"]

\* variant: the join goes on as soon as one of the calls has returned
PromiseAny(responses) == \E k \in DOMAIN responses : responses[k] # Pending

\* await Promise.all(tasks): every task of the set has settled (a rejection
\* ends the wait at once, see the steps that settle a task)
PromiseAll(responses) == \A k \in DOMAIN responses : responses[k] # Pending

\* calls: the paragraph indices of the resegmentation calls, in the order of
\* the tasks; reseg: their responses; last: the task whose call returned last
\* when all have returned; define: the topic-definition response; tagged,
\* tag: the statements of the tagging calls and their responses
NoCompletions ==
  [calls |-> <<>>, reseg |-> <<>>, last |-> 0,
   define |-> <<>>, tagged |-> {}, tag |-> NoTags]

\* no identifySpeakers call is being followed
IdentIdle ==
  /\ step = "idle"
  /\ paragraphs = <<>>
  /\ parsed = <<>>
  /\ resegmented = <<>>
  /\ rebuilt = EmptyTranscript
  /\ filtered = EmptyTranscript
  /\ finalParagraphs = <<>>
  /\ finalMapping = EmptyMapping
  /\ topicsRecord = NoTopics
  /\ paragraphTopics = NoTags
  /\ completions = NoCompletions
  /\ thrown = NULL

----------------------------------------------------------------------------
(* The transcripts table with several rows (src/unnamed/part_000): every   *)
(* statement of the store layer names its row by transcript_id             *)

TranscriptIds == {"t1", "t2", "t3"}

Row(s, c, lock, msg) ==
  [status |-> s, content |-> c, pipeline_lock |-> lock, error_message |-> msg]

\* SET column = value, ...: the row with the columns of set replaced
Assign(row, set) == [c \in DOMAIN row |-> IF c \in DOMAIN set THEN set[c] ELSE row[c]]

\* variant: the statement has no condition on transcript_id
WhereAny(rows, id, set) == [t \in DOMAIN rows |-> Assign(rows[t], set)]

\* UPDATE transcripts SET ... WHERE transcript_id = ?
Where(rows, id, set) ==
  [t \in DOMAIN rows |-> IF t = id THEN Assign(rows[t], set) ELSE rows[t]]

\* variant: INSERT OR REPLACE, the row is written anew
UpsertReplace(rows, id, row, set) ==
  [t \in DOMAIN rows \cup {id} |-> IF t = id THEN row ELSE rows[t]]

\* INSERT INTO transcripts (...) VALUES (...)
\*   ON CONFLICT(transcript_id) DO UPDATE SET status, language_code, content
Upsert(rows, id, row, set) ==
  IF id \in DOMAIN rows
    THEN Where(rows, id, set)
    ELSE [t \in DOMAIN rows \cup {id} |-> IF t = id THEN row ELSE rows[t]]

\* pipeline_lock of the row of id; an UPDATE finds no row when there is none
LockOf(rows, id) == IF id \in DOMAIN rows THEN rows[id].pipeline_lock ELSE NoLock

\* entry_id of a transcript: two transcripts of one entry, one of another
EntryOf(id) == IF id \in {"t1", "t2", "n1"} THEN "e1" ELSE "e2"

\* the transcript id that submitTranscription returns for a new job of the entry
NewId(entryId) == IF entryId = "e1" THEN "n1" ELSE "n2"

\* DELETE FROM transcripts WHERE entry_id = ?
deleteTranscriptsForEntry(rows, entryId) ==
  [t \in {u \in DOMAIN rows : EntryOf(u) # entryId} |-> rows[t]]

\* no table of several transcripts is being followed
TableIdle ==
  /\ transcripts = <<>>
  /\ runner = <<>>

----------------------------------------------------------------------------

Init ==
  /\ status = "transcribing"
  /\ content = TranscriptContent(FALSE, Nothing, Nothing)
  /\ pipeline_lock = NoLock
  /\ error_message = NULL
  /\ job = "processing"
  /\ pc = [w \in Workers |-> "idle"]
  /\ err = [w \in Workers |-> NULL]
  /\ assign = [w \in Workers |-> "none"]
  /\ topics = [w \in Workers |-> "none"]
  /\ call = NoCalls
  /\ returned = NoResults
  /\ stored = 0
  /\ holder = "none"
  /\ IdentIdle
  /\ TableIdle

----------------------------------------------------------------------------
(* Environment *)

\* the speech service finishes the job
JobCompletes ==
  /\ job = "processing"
  /\ job' = "completed"
  /\ UNCHANGED <<store, pc, err, assign, topics, call, returned, stored, holder, ident, table>>

\* the speech service fails the job
JobFails ==
  /\ job = "processing"
  /\ job' = "error"
  /\ UNCHANGED <<store, pc, err, assign, topics, call, returned, stored, holder, ident, table>>

\* one time unit passes
Tick ==
  /\ pipeline_lock # Age(pipeline_lock)
  /\ pipeline_lock' = Age(pipeline_lock)
  /\ UNCHANGED <<status, content, error_message, job, pc, err, assign, topics, call, returned, stored, holder, ident, table>>

----------------------------------------------------------------------------
(* pollTranscription *)

Goto(w, loc) == pc' = [pc EXCEPT ![w] = loc]

\* variant: a transcript in identifying_speakers is treated like a transcribed one
AfterReadStarts(s) ==
  CASE s \in {"completed", "error", "analyzing_topics"} -> "idle"
    [] s \in {"transcribed", "identifying_speakers"} -> "p_acquire"
    [] OTHER -> "p_assembly"

\* where pollTranscription goes after getTranscriptById
AfterRead(s) ==
  CASE s \in {"completed", "error", "identifying_speakers", "analyzing_topics"} -> "idle"
    [] s = "transcribed" -> "p_acquire"
    [] OTHER -> "p_assembly"

\* the pollTranscription call of w returns a PollResult of that stage, or
\* ends with an exception ("thrown"); "pending" while the call is under way
Return(w, stage) == returned' = [returned EXCEPT ![w] = stage]

\* a poll request (of the poll loop, or the one issued by handleRetry):
\* getTranscriptById and the branches on the stored status
PollRead(w) ==
  /\ pc[w] \in {"idle", "p_retry"}
  /\ Goto(w, AfterRead(status))
  /\ Return(w, IF AfterRead(status) = "idle" THEN status ELSE "pending")
  /\ UNCHANGED <<store, job, err, assign, topics, call, stored, holder, ident, table>>

\* handleRetry with a transcriptId: the client leaves its error stage and
\* pollForCompletion polls the same transcript again
handleRetry(w) ==
  /\ pc[w] = "idle"
  /\ Goto(w, "p_retry")
  /\ Return(w, "pending")
  /\ UNCHANGED <<store, job, err, assign, topics, call, stored, holder, ident, table>>

\* poll of the speech service, and fetch of the paragraphs when the job is
\* done; a request that fails or is answered with a non-OK status throws
PollAssembly(w) ==
  /\ pc[w] = "p_assembly"
  /\ \E ok \in BOOLEAN :
       /\ Goto(w, IF ~ok THEN "idle"
                  ELSE IF job = "completed" THEN "p_save"
                  ELSE IF job = "error" THEN "p_asm_error"
                  ELSE "idle")
       /\ Return(w, IF ~ok THEN "thrown"
                    ELSE IF job = "processing" THEN "transcribing"
                    ELSE "pending")
  /\ UNCHANGED <<store, job, err, assign, topics, call, stored, holder, ident, table>>

\* saveTranscript(..., 'transcribed', ..., { raw_paragraphs, statements: [], topics: {} })
PollSave(w) ==
  /\ pc[w] = "p_save"
  /\ saveTranscript("transcribed", TranscriptContent(TRUE, Nothing, Nothing))
  /\ Goto(w, "p_acquire")
  /\ stored' = stored + 1
  /\ UNCHANGED <<job, err, assign, topics, call, returned, holder, ident, table>>

\* updateTranscriptStatus(transcriptId, 'error', assemblyData.error || ...)
PollAsmError(w) ==
  /\ pc[w] = "p_asm_error"
  /\ updateTranscriptStatus("error", MsgAssembly)
  /\ Goto(w, "idle")
  /\ Return(w, "error")
  /\ UNCHANGED <<job, err, assign, topics, call, stored, holder, ident, table>>

\* variant: the run is started whatever tryAcquirePipelineLock returned
AfterAcquireAlways(acquired) == "r_ident"

\* if (acquired) { runPipeline(...).catch(...) }  return { stage: 'identifying_speakers', ... }
AfterAcquire(acquired) == IF acquired THEN "r_ident" ELSE "idle"

\* tryAcquirePipelineLock, and runPipeline started in the background when acquired
PollAcquire(w) ==
  /\ pc[w] = "p_acquire"
  /\ LET r == tryAcquirePipelineLock(pipeline_lock) IN
       /\ pipeline_lock' = r.lock
       /\ holder' = IF r.acquired THEN w ELSE holder
       /\ Goto(w, AfterAcquire(r.acquired))
  /\ Return(w, "identifying_speakers")
  /\ UNCHANGED <<status, content, error_message, job, err, assign, topics, call, stored, ident,
                 table>>

----------------------------------------------------------------------------
(* runPipeline *)

\* a throw inside the try block of runPipeline
Throw(w, msg) ==
  /\ Goto(w, "r_catch")
  /\ err' = [err EXCEPT ![w] = msg]

\* await updateTranscriptStatus(transcriptId, 'identifying_speakers')
RunMarkIdentifying(w) ==
  /\ pc[w] = "r_ident"
  /\ \/ /\ updateTranscriptStatus("identifying_speakers", NULL)
        /\ Goto(w, "r_get")
        /\ UNCHANGED err
     \/ /\ Throw(w, MsgStore)
        /\ UNCHANGED store
  /\ UNCHANGED <<job, assign, topics, call, returned, stored, holder, ident, table>>

\* getTranscriptById; throws when the content has no raw_paragraphs
RunLoad(w) ==
  /\ pc[w] = "r_get"
  /\ IF content.raw_paragraphs
       THEN Goto(w, "r_assign") /\ UNCHANGED err
       ELSE Throw(w, MsgNoRaw)
  /\ UNCHANGED <<store, job, assign, topics, call, returned, stored, holder, ident, table>>

----------------------------------------------------------------------------
(* identifySpeakers(raw_paragraphs, transcriptId): called without entryId, *)
(* so it writes nothing to the transcripts table                           *)

\* variant: a response without content is not checked and the run goes on
AssignOutcomeLenient(w, outcome) ==
  /\ assign' = [assign EXCEPT ![w] = outcome]
  /\ IF outcome \in {"ok", MsgNoContent}
       THEN Goto(w, "r_reseg") /\ UNCHANGED err
       ELSE Throw(w, outcome)

\* stage 4.2: the completion call, its content and JSON.parse
AssignOutcome(w, outcome) ==
  /\ assign' = [assign EXCEPT ![w] = outcome]
  /\ IF outcome = "ok"
       THEN Goto(w, "r_reseg") /\ UNCHANGED err
       ELSE Throw(w, outcome)

IdentifyAssign(w) ==
  /\ pc[w] = "r_assign"
  /\ \E outcome \in {"ok"} \cup AssignFailures : AssignOutcome(w, outcome)
  /\ UNCHANGED <<store, job, topics, call, returned, stored, holder, ident, table>>

\* stage 4.3: Promise.all over the resegmentation tasks
IdentifyReseg(w) ==
  /\ pc[w] = "r_reseg"
  /\ \/ Goto(w, "r_topics") /\ UNCHANGED err
     \/ Throw(w, MsgReseg)
  /\ UNCHANGED <<store, job, assign, topics, call, returned, stored, holder, ident, table>>

\* variant: the topic block has no try/catch, a failure reaches runPipeline
TopicsOutcomeFatal(w, outcome) ==
  /\ topics' = [topics EXCEPT ![w] = outcome]
  /\ IF outcome = "failed"
       THEN Throw(w, "Failed to define topics")
       ELSE Goto(w, "r_complete") /\ UNCHANGED err

\* stage 4.5: try { defineTopics; tagParagraphsWithTopics } catch { warn }
TopicsOutcome(w, outcome) ==
  /\ topics' = [topics EXCEPT ![w] = outcome]
  /\ Goto(w, "r_complete")
  /\ UNCHANGED err

\* the arguments of identifySpeakers(transcript.content.raw_paragraphs, transcriptId)
\* in runPipeline: transcriptId is given, entryId is not
IdentifyArguments == [transcriptId |-> TRUE, entryId |-> FALSE]

\* if (transcriptId && entryId) { ... saveTranscript(..., 'completed', ...,
\*   { paragraphs: finalParagraphs, topics, paragraph_topics }) ... }
SaveToDatabase(w, arguments) ==
  IF arguments.transcriptId /\ arguments.entryId
    THEN saveTranscript("completed", TranscriptContent(FALSE, Nothing, w))
    ELSE UNCHANGED store

IdentifyTopics(w) ==
  /\ pc[w] = "r_topics"
  /\ \E outcome \in {"defined", "skipped", "failed"} : TopicsOutcome(w, outcome)
  /\ SaveToDatabase(w, IdentifyArguments)
  /\ UNCHANGED <<job, assign, call, returned, stored, holder, ident, table>>

----------------------------------------------------------------------------
(* runPipeline, continued *)

\* await updateTranscriptStatus(transcriptId, 'completed')
RunMarkCompleted(w) ==
  /\ pc[w] = "r_complete"
  /\ \/ /\ updateTranscriptStatus("completed", NULL)
        /\ Goto(w, "r_release")
        /\ UNCHANGED err
     \/ /\ Throw(w, MsgStore)
        /\ UNCHANGED store
  /\ UNCHANGED <<job, assign, topics, call, returned, stored, holder, ident, table>>

\* await releasePipelineLock(transcriptId) at the end of the try block
RunRelease(w) ==
  /\ pc[w] = "r_release"
  /\ pipeline_lock' = releasePipelineLock(pipeline_lock)
  /\ holder' = "none"
  /\ Goto(w, "idle")
  /\ assign' = [assign EXCEPT ![w] = "none"]
  /\ topics' = [topics EXCEPT ![w] = "none"]
  /\ Return(w, "none")
  /\ UNCHANGED <<status, content, error_message, job, err, call, stored, ident, table>>

\* catch: await updateTranscriptStatus(transcriptId, 'error', err.message)
RunCatchStatus(w) ==
  /\ pc[w] = "r_catch"
  /\ updateTranscriptStatus("error", err[w])
  /\ Goto(w, "r_catch_release")
  /\ UNCHANGED <<job, err, assign, topics, call, returned, stored, holder, ident, table>>

\* catch: await releasePipelineLock(transcriptId); throw err
RunCatchRelease(w) ==
  /\ pc[w] = "r_catch_release"
  /\ pipeline_lock' = releasePipelineLock(pipeline_lock)
  /\ holder' = "none"
  /\ Goto(w, "h_both")
  /\ UNCHANGED <<status, content, error_message, job, err, assign, topics, call, returned, stored, ident, table>>

\* the .catch handler of pollTranscription issues two store calls without
\* awaiting them; they reach the store in either order
HandlerStatus(w) ==
  /\ pc[w] \in {"h_both", "h_status"}
  /\ updateTranscriptStatus("error", err[w])
  /\ Goto(w, IF pc[w] = "h_both" THEN "h_release" ELSE "idle")
  /\ err' = [err EXCEPT ![w] = IF pc[w] = "h_both" THEN @ ELSE NULL]
  /\ assign' = [assign EXCEPT ![w] = IF pc[w] = "h_both" THEN @ ELSE "none"]
  /\ Return(w, IF pc[w] = "h_both" THEN returned[w] ELSE "none")
  /\ topics' = [topics EXCEPT ![w] = IF pc[w] = "h_both" THEN @ ELSE "none"]
  /\ UNCHANGED <<job, call, stored, holder, ident, table>>

HandlerRelease(w) ==
  /\ pc[w] \in {"h_both", "h_release"}
  /\ pipeline_lock' = releasePipelineLock(pipeline_lock)
  /\ holder' = "none"
  /\ Goto(w, IF pc[w] = "h_both" THEN "h_status" ELSE "idle")
  /\ err' = [err EXCEPT ![w] = IF pc[w] = "h_both" THEN @ ELSE NULL]
  /\ assign' = [assign EXCEPT ![w] = IF pc[w] = "h_both" THEN @ ELSE "none"]
  /\ Return(w, IF pc[w] = "h_both" THEN returned[w] ELSE "none")
  /\ topics' = [topics EXCEPT ![w] = IF pc[w] = "h_both" THEN @ ELSE "none"]
  /\ UNCHANGED <<status, content, error_message, job, call, stored, ident, table>>

\* the process executing a run stops; at least one caller stays alive to poll
Crash(w) ==
  /\ pc[w] \in RunPcs
  /\ \E v \in Workers \ {w} : pc[v] # "crashed"
  /\ Goto(w, "crashed")
  /\ UNCHANGED <<store, job, err, assign, topics, call, returned, stored, holder, ident, table>>

----------------------------------------------------------------------------
(* POST /api/transcribe/poll (src/app/api/transcribe/poll/route.ts) *)

\* the speech job is completed: the row is read and saved as 'completed'
\* with { statements: [], topics: {} }
PollRoutePOST ==
  /\ job = "completed"
  /\ saveTranscript("completed", TranscriptContent(FALSE, Nothing, Nothing))
  /\ UNCHANGED <<job, pc, err, assign, topics, call, returned, stored, holder, ident, table>>

----------------------------------------------------------------------------

PollStep(w) ==
  \/ PollRead(w)
  \/ handleRetry(w)
  \/ PollAssembly(w)
  \/ PollSave(w)
  \/ PollAsmError(w)
  \/ PollAcquire(w)

RunStep(w) ==
  \/ RunMarkIdentifying(w)
  \/ RunLoad(w)
  \/ IdentifyAssign(w)
  \/ IdentifyReseg(w)
  \/ IdentifyTopics(w)
  \/ RunMarkCompleted(w)
  \/ RunRelease(w)
  \/ RunCatchStatus(w)
  \/ RunCatchRelease(w)
  \/ HandlerStatus(w)
  \/ HandlerRelease(w)

WorkerStep(w) == PollStep(w) \/ RunStep(w)

Environment ==
  \/ JobCompletes
  \/ JobFails
  \/ Tick
  \/ PollRoutePOST

NextNoCrash ==
  \/ \E w \in Workers : WorkerStep(w)
  \/ Environment

Next ==
  \/ NextNoCrash
  \/ \E w \in Workers : Crash(w)

Spec == Init /\ [][Next]_vars

\* No process stops: every continuation of a run is executed once the call
\* it awaits has settled, and every collaborator call settles.
FairSpec == Init /\ [][NextNoCrash]_vars /\ \A w \in Workers : WF_vars(RunStep(w))

\* Processes may stop; the ones that stay alive keep polling, their runs
\* continue, the speech job ends and time passes.
CrashFairSpec ==
  /\ Init
  /\ [][Next]_vars
  /\ \A w \in Workers : WF_vars(RunStep(w)) /\ WF_vars(PollStep(w))
  /\ WF_vars(JobCompletes \/ JobFails)
  /\ WF_vars(Tick)

----------------------------------------------------------------------------
(* The store calls of the error path fail as well (the store is out of     *)
(* reach, not only for one call)                                           *)

\* catch: await updateTranscriptStatus(transcriptId, 'error', ...) rejects; the
\* exception leaves the catch block before releasePipelineLock and reaches the
\* .catch handler of pollTranscription
RunCatchStatusFails(w) ==
  /\ pc[w] = "r_catch"
  /\ Goto(w, "h_both")
  /\ err' = [err EXCEPT ![w] = MsgStore]
  /\ UNCHANGED <<store, job, assign, topics, call, returned, stored, holder, ident, table>>

\* handler: the updateTranscriptStatus call that is not awaited rejects
HandlerStatusFails(w) ==
  /\ pc[w] \in {"h_both", "h_status"}
  /\ Goto(w, IF pc[w] = "h_both" THEN "h_release" ELSE "idle")
  /\ err' = [err EXCEPT ![w] = IF pc[w] = "h_both" THEN @ ELSE NULL]
  /\ assign' = [assign EXCEPT ![w] = IF pc[w] = "h_both" THEN @ ELSE "none"]
  /\ Return(w, IF pc[w] = "h_both" THEN returned[w] ELSE "none")
  /\ topics' = [topics EXCEPT ![w] = IF pc[w] = "h_both" THEN @ ELSE "none"]
  /\ UNCHANGED <<store, job, call, stored, holder, ident, table>>

FaultStep(w) ==
  \/ RunCatchStatusFails(w)
  \/ HandlerStatusFails(w)

FaultNext ==
  \/ NextNoCrash
  \/ \E w \in Workers : FaultStep(w)

\* No process stops and every collaborator call settles, with a result or
\* with a failure.
FaultFairSpec ==
  /\ Init
  /\ [][FaultNext]_vars
  /\ \A w \in Workers : WF_vars(RunStep(w) \/ FaultStep(w))

----------------------------------------------------------------------------
(* Concurrent tryAcquirePipelineLock calls on one record.  A set of callers *)
(* issues the call at the same time; each call is one UPDATE statement.     *)
(* Time passes between rounds only: a call takes less than one time unit.   *)

Markers == {NoLock} \cup {<<t>> : t \in Oldest..Now}

LockInit ==
  /\ status = "transcribed"
  /\ content = TranscriptContent(TRUE, Nothing, Nothing)
  /\ pipeline_lock \in Markers
  /\ error_message = NULL
  /\ job = "completed"
  /\ pc = [w \in Workers |-> "idle"]
  /\ err = [w \in Workers |-> NULL]
  /\ assign = [w \in Workers |-> "none"]
  /\ topics = [w \in Workers |-> "none"]
  /\ call = NoCalls
  /\ returned = NoResults
  /\ stored = 1
  /\ holder = "none"
  /\ IdentIdle
  /\ TableIdle

InFlight == {c \in Callers : call.st[c] = "issued"}

Returned == {c \in Callers : call.st[c] \in {"true", "false"}}

\* the callers of S reach tryAcquirePipelineLock together
IssueCalls(S) ==
  /\ call = NoCalls
  /\ IdentIdle
  /\ call' = [st |-> [c \in Callers |-> IF c \in S THEN "issued" ELSE "idle"],
              start |-> pipeline_lock]
  /\ UNCHANGED <<store, job, pc, err, assign, topics, returned, stored, holder, ident, table>>

\* the UPDATE of caller c is executed by the store
ExecuteCall(c) ==
  /\ call.st[c] = "issued"
  /\ LET r == tryAcquirePipelineLock(pipeline_lock) IN
       /\ pipeline_lock' = r.lock
       /\ call' = [call EXCEPT !.st[c] = IF r.acquired THEN "true" ELSE "false"]
  /\ UNCHANGED <<status, content, error_message, job, pc, err, assign, topics, returned, stored, holder, ident, table>>

\* all calls have returned; the run of the winner ends with releasePipelineLock
RoundReleased ==
  /\ InFlight = {} /\ Returned # {}
  /\ \E c \in Returned : call.st[c] = "true"
  /\ pipeline_lock' = releasePipelineLock(pipeline_lock)
  /\ call' = NoCalls
  /\ UNCHANGED <<status, content, error_message, job, pc, err, assign, topics, returned, stored, holder, ident, table>>

\* all calls have returned; no release follows (no winner, or its process stopped)
RoundAbandoned ==
  /\ InFlight = {} /\ Returned # {}
  /\ call' = NoCalls
  /\ UNCHANGED <<store, job, pc, err, assign, topics, returned, stored, holder, ident, table>>

\* one time unit passes between two rounds
LockTick ==
  /\ call = NoCalls
  /\ IdentIdle
  /\ Tick

LockNext ==
  \/ \E S \in (SUBSET Callers) \ {{}} : IssueCalls(S)
  \/ \E c \in Callers : ExecuteCall(c)
  \/ RoundReleased
  \/ RoundAbandoned
  \/ LockTick

LockSpec == LockInit /\ [][LockNext]_vars

----------------------------------------------------------------------------
(* Polls and runs on several transcripts: for each transcript the store    *)
(* statements of pollTranscription (from the save of the raw paragraphs)   *)
(* and of the run it starts, each applied to the table                     *)

TableInit ==
  /\ status = "transcribing"
  /\ content = TranscriptContent(FALSE, Nothing, Nothing)
  /\ pipeline_lock = NoLock
  /\ error_message = NULL
  /\ job = "processing"
  /\ pc = [w \in Workers |-> "idle"]
  /\ err = [w \in Workers |-> NULL]
  /\ assign = [w \in Workers |-> "none"]
  /\ topics = [w \in Workers |-> "none"]
  /\ call = NoCalls
  /\ returned = NoResults
  /\ stored = 0
  /\ holder = "none"
  /\ IdentIdle
  /\ transcripts =
       [t \in TranscriptIds |->
          Row("transcribing", TranscriptContent(FALSE, Nothing, Nothing), NoLock, NULL)]
  /\ runner = [t \in TranscriptIds |-> "p_save"]

Move(t, loc) == runner' = [runner EXCEPT ![t] = loc]

\* saveTranscript(entry_id, transcriptId, ..., 'transcribed', ..., content):
\* ON CONFLICT(transcript_id) DO UPDATE SET status, language_code, content
TableSave(t) ==
  /\ runner[t] = "p_save"
  /\ transcripts' =
       Upsert(transcripts, t,
              Row("transcribed", TranscriptContent(TRUE, Nothing, Nothing), NoLock, NULL),
              [status |-> "transcribed", content |-> TranscriptContent(TRUE, Nothing, Nothing)])
  /\ Move(t, "p_acquire")
  /\ UNCHANGED <<pipeline, ident>>

\* tryAcquirePipelineLock(transcriptId) and the start of the run
TableAcquire(t) ==
  /\ runner[t] = "p_acquire"
  /\ transcripts' =
       Where(transcripts, t,
             [pipeline_lock |-> tryAcquirePipelineLock(LockOf(transcripts, t)).lock])
  /\ Move(t, AfterAcquire(t \in DOMAIN transcripts
                            /\ tryAcquirePipelineLock(LockOf(transcripts, t)).acquired))
  /\ UNCHANGED <<pipeline, ident>>

\* updateTranscriptStatus(transcriptId, 'identifying_speakers')
TableMarkIdentifying(t) ==
  /\ runner[t] = "r_ident"
  /\ transcripts' =
       Where(transcripts, t, [status |-> "identifying_speakers", error_message |-> NULL])
  /\ Move(t, "r_get")
  /\ UNCHANGED <<pipeline, ident>>

\* getTranscriptById; if (!transcript?.content.raw_paragraphs) throw
TableLoad(t) ==
  /\ runner[t] = "r_get"
  /\ Move(t, IF t \in DOMAIN transcripts /\ transcripts[t].content.raw_paragraphs
               THEN "r_assign" ELSE "r_catch")
  /\ UNCHANGED <<pipeline, ident, transcripts>>

\* updateTranscriptStatus(transcriptId, 'completed')
TableMarkCompleted(t) ==
  /\ runner[t] = "r_assign"
  /\ transcripts' =
       Where(transcripts, t, [status |-> "completed", error_message |-> NULL])
  /\ Move(t, "r_release")
  /\ UNCHANGED <<pipeline, ident>>

\* catch: updateTranscriptStatus(transcriptId, 'error', err.message)
TableMarkError(t) ==
  /\ runner[t] \in {"r_assign", "r_catch"}
  /\ \E msg \in IF runner[t] = "r_catch" THEN {MsgNoRaw} ELSE AssignFailures :
       transcripts' =
         Where(transcripts, t, [status |-> "error", error_message |-> msg])
  /\ Move(t, "r_catch_release")
  /\ UNCHANGED <<pipeline, ident>>

\* releasePipelineLock(transcriptId)
TableRelease(t) ==
  /\ runner[t] \in {"r_release", "r_catch_release"}
  /\ transcripts' =
       Where(transcripts, t, [pipeline_lock |-> releasePipelineLock(LockOf(transcripts, t))])
  /\ Move(t, "idle")
  /\ UNCHANGED <<pipeline, ident>>

TableNext ==
  \E t \in TranscriptIds :
    \/ TableSave(t)
    \/ TableAcquire(t)
    \/ TableMarkIdentifying(t)
    \/ TableLoad(t)
    \/ TableMarkCompleted(t)
    \/ TableMarkError(t)
    \/ TableRelease(t)

TableSpec == TableInit /\ [][TableNext]_vars

----------------------------------------------------------------------------
(* Forced re-transcription of an entry while polls and runs of its          *)
(* transcripts are in flight                                                *)

\* transcribeEntry(kalturaId, force = true): deleteTranscriptsForEntry,
\* submitTranscription, saveTranscript(entryId, transcriptId, ...,
\* 'transcribing', null, { statements: [], topics: {} }).  The new row has an
\* id of its own, so the steps of the call are taken as one.
transcribeEntry(entryId) ==
  /\ NewId(entryId) \notin DOMAIN transcripts
  /\ transcripts' =
       Upsert(deleteTranscriptsForEntry(transcripts, entryId), NewId(entryId),
              Row("transcribing", TranscriptContent(FALSE, Nothing, Nothing), NoLock, NULL),
              [status |-> "transcribing",
               content |-> TranscriptContent(FALSE, Nothing, Nothing)])
  /\ UNCHANGED <<pipeline, ident, runner>>

EntryNext ==
  \/ TableNext
  \/ \E entryId \in {"e1", "e2"} : transcribeEntry(entryId)

EntrySpec == TableInit /\ [][EntryNext]_vars

----------------------------------------------------------------------------
(* The functions of the store layer that write a row of transcripts, called *)
(* in any order on existing rows; runner names the last call on each row    *)

StoreIds == {"t1", "t2"}

StoreStatuses == {"transcribed", "error"}

StoreContents ==
  {TranscriptContent(FALSE, Nothing, Nothing), TranscriptContent(TRUE, Nothing, Nothing)}

StoreInit ==
  /\ status = "transcribing"
  /\ content = TranscriptContent(FALSE, Nothing, Nothing)
  /\ pipeline_lock = NoLock
  /\ error_message = NULL
  /\ job = "processing"
  /\ pc = [w \in Workers |-> "idle"]
  /\ err = [w \in Workers |-> NULL]
  /\ assign = [w \in Workers |-> "none"]
  /\ topics = [w \in Workers |-> "none"]
  /\ call = NoCalls
  /\ returned = NoResults
  /\ stored = 0
  /\ holder = "none"
  /\ IdentIdle
  /\ transcripts =
       [t \in StoreIds |->
          Row("transcribing", TranscriptContent(FALSE, Nothing, Nothing), NoLock, NULL)]
  /\ runner = [t \in StoreIds |-> "saveTranscript"]

StoreCall(t, name, rows) ==
  /\ transcripts' = rows
  /\ runner' = [runner EXCEPT ![t] = name]
  /\ UNCHANGED <<pipeline, ident>>

StoreSaveTranscript(t) ==
  \E s \in StoreStatuses, c \in StoreContents :
    StoreCall(t, "saveTranscript",
              Upsert(transcripts, t, Row(s, c, NoLock, NULL), [status |-> s, content |-> c]))

\* UPDATE transcripts SET status = ?, error_message = ?, updated_at = ? WHERE transcript_id = ?
StoreUpdateStatus(t) ==
  \E s \in StoreStatuses, msg \in {NULL, MsgStore} :
    StoreCall(t, "updateTranscriptStatus",
              Where(transcripts, t, [status |-> s, error_message |-> msg]))

\* UPDATE transcripts SET content = ?, updated_at = ? WHERE transcript_id = ?
updateTranscriptContent(t) ==
  \E c \in StoreContents :
    StoreCall(t, "updateTranscriptContent", Where(transcripts, t, [content |-> c]))

StoreTryAcquire(t) ==
  StoreCall(t, "tryAcquirePipelineLock",
            Where(transcripts, t,
                  [pipeline_lock |-> tryAcquirePipelineLock(LockOf(transcripts, t)).lock]))

StoreRelease(t) ==
  StoreCall(t, "releasePipelineLock",
            Where(transcripts, t, [pipeline_lock |-> releasePipelineLock(LockOf(transcripts, t))]))

StoreNext ==
  \E t \in StoreIds :
    \/ StoreSaveTranscript(t)
    \/ StoreUpdateStatus(t)
    \/ updateTranscriptContent(t)
    \/ StoreTryAcquire(t)
    \/ StoreRelease(t)

StoreSpec == StoreInit /\ [][StoreNext]_vars

----------------------------------------------------------------------------
(* identifySpeakers as a sequence of steps; a step ends at an await of a   *)
(* completion call (or of the join of a set of them)                       *)

\* the record and the workers while one run is inside identifySpeakers
RunInIdentify ==
  /\ status = "identifying_speakers"
  /\ content = TranscriptContent(TRUE, Nothing, Nothing)
  /\ pipeline_lock = <<Now>>
  /\ error_message = NULL
  /\ job = "completed"
  /\ pc = [w \in Workers |-> IF w = "w1" THEN "r_assign" ELSE "idle"]
  /\ err = [w \in Workers |-> NULL]
  /\ assign = [w \in Workers |-> "none"]
  /\ topics = [w \in Workers |-> "none"]
  /\ call = NoCalls
  /\ returned = [w \in Workers |-> IF w = "w1" THEN "identifying_speakers" ELSE "none"]
  /\ stored = 1
  /\ holder = "w1"
  /\ TableIdle

\* identifySpeakers is called with one of the transcripts of inputs
IdentStart(inputs) ==
  /\ RunInIdentify
  /\ step = "start"
  /\ paragraphs \in inputs
  /\ parsed = <<>>
  /\ resegmented = <<>>
  /\ rebuilt = EmptyTranscript
  /\ filtered = EmptyTranscript
  /\ finalParagraphs = <<>>
  /\ finalMapping = EmptyMapping
  /\ topicsRecord = NoTopics
  /\ paragraphTopics = NoTags
  /\ completions = NoCompletions
  /\ thrown = NULL

IdentInit == IdentStart({RawParagraphs(n) : n \in 0..MaxParagraphs})

\* throw out of identifySpeakers
IdentThrow(msg) ==
  /\ step' = "thrown"
  /\ thrown' = msg

\* if (!paragraphs?.length) throw; otherwise the assignment call is issued
identifySpeakers ==
  /\ step = "start"
  /\ IF paragraphs = <<>>
       THEN IdentThrow("No paragraphs provided")
       ELSE step' = "assigning" /\ UNCHANGED thrown
  /\ UNCHANGED <<pipeline, table, paragraphs, parsed, resegmented, rebuilt, filtered,
                 finalParagraphs, finalMapping, topicsRecord, paragraphTopics, completions>>

\* rebuilt transcript t goes through the off-record filter and the grouping
Consolidate(t) ==
  LET f == FilterOffRecord(t)
      g == GroupSpeakers(f.out)
      ok == ~f.error /\ ~g.error
  IN  /\ rebuilt' = t
      /\ filtered' = IF f.error THEN EmptyTranscript ELSE f.out
      /\ finalParagraphs' = IF ok THEN g.out.paragraphs ELSE <<>>
      /\ finalMapping' = IF ok THEN g.out.mapping ELSE EmptyMapping
      /\ step' = IF ok THEN "topics" ELSE "thrown"
      /\ thrown' = IF ok THEN NULL ELSE TypeError

\* the assignment call returns one of responses: content check, JSON.parse,
\* initial mapping; the resegmentation tasks are started and each runs up to
\* its completion call; without a flagged paragraph the code runs on to the
\* topic block
AssignmentReturnsFrom(responses) ==
  /\ step = "assigning"
  /\ \/ /\ IdentThrow(MsgNoContent)
        /\ UNCHANGED <<parsed, rebuilt, filtered, finalParagraphs, finalMapping, completions>>
     \/ \E response \in responses :
          LET mapping == BuildMapping(response, EmptyMapping)
              indices == toResegment(response)
          IN  /\ parsed' = response
              /\ IF indices = <<>>
                   THEN /\ Consolidate([paragraphs |-> paragraphs, mapping |-> mapping])
                        /\ UNCHANGED completions
                   ELSE /\ step' = "resegmenting"
                        /\ finalParagraphs' = paragraphs
                        /\ finalMapping' = mapping
                        /\ completions' =
                             [completions EXCEPT
                                !.calls = indices,
                                !.reseg = [k \in DOMAIN indices |-> Pending]]
                        /\ UNCHANGED <<rebuilt, filtered, thrown>>
  /\ UNCHANGED <<pipeline, table, paragraphs, resegmented, topicsRecord, paragraphTopics>>

AssignmentReturns == AssignmentReturnsFrom(AssignResponses(Len(paragraphs)))

\* the value of the task of paragraph idx whose call returned response:
\* resegmentParagraph(client, para, contextParas, idx).then(result => ({ index: idx, ...result }))
ResegmentTask(idx, response) ==
  LET r == resegmentParagraph(paragraphs[idx + 1], finalMapping[idx], response)
  IN  [index |-> idx, throws |-> r.throws, segments |-> r.segments, speakers |-> r.speakers]

\* the code after await Promise.all(resegmentTasks): the values of the tasks
\* in the order of the tasks, the rebuild and the consolidation
ResegmentationJoin(responses) ==
  LET settled == {k \in DOMAIN responses : responses[k] # Pending}
      Nth(i) == CHOOSE k \in settled : Cardinality({j \in settled : j < k}) = i - 1
      results == [i \in 1..Cardinality(settled) |->
                    ResegmentTask(completions.calls[Nth(i)], responses[Nth(i)])]
  IN  /\ resegmented' = results
      /\ Consolidate(Rebuild(paragraphs, finalMapping, results, 0, EmptyTranscript))

\* the completion call of resegmentation task k returns.  A task that throws
\* rejects Promise.all at once and identifySpeakers throws; the task that
\* settles last lets identifySpeakers go on.  The calls that are still out
\* when identifySpeakers throws are not followed further: nothing reads what
\* they return.
ResegmentationReturns(k, response) ==
  /\ step = "resegmenting"
  /\ completions.reseg[k] = Pending
  /\ LET idx == completions.calls[k]
         responses == [completions.reseg EXCEPT ![k] = response]
     IN  /\ completions' =
              [completions EXCEPT
                 !.reseg = responses,
                 !.last = IF PromiseAll(responses) THEN k ELSE 0]
         /\ IF ResegmentTask(idx, response).throws # NULL
              THEN /\ IdentThrow(ResegmentTask(idx, response).throws)
                   /\ UNCHANGED <<resegmented, rebuilt, filtered, finalParagraphs, finalMapping>>
            ELSE IF PromiseAll(responses)
              THEN ResegmentationJoin(responses)
            ELSE UNCHANGED <<step, thrown, resegmented, rebuilt, filtered,
                             finalParagraphs, finalMapping>>
  /\ UNCHANGED <<pipeline, table, paragraphs, parsed, topicsRecord, paragraphTopics>>

\* the call of task k returns an answer of one of the kinds
ResegmentationSettles(k) ==
  /\ step = "resegmenting"
  /\ completions.reseg[k] = Pending
  /\ \E kind \in ResegKinds :
       ResegmentationReturns(k, ResegResponse(paragraphs[completions.calls[k] + 1], kind))

\* the exception of identifySpeakers reaches the catch block of runPipeline
IdentifyThrows(w) ==
  /\ step = "thrown"
  /\ pc[w] = "r_assign"
  /\ Throw(w, thrown)
  /\ UNCHANGED <<store, job, assign, topics, call, returned, stored, holder, ident, table>>

IdentNext ==
  \/ identifySpeakers
  \/ AssignmentReturns
  \/ \E k \in DOMAIN completions.reseg : ResegmentationSettles(k)

\* stages 4.2 to 4.4 of one identifySpeakers call
IdentSpec == IdentInit /\ [][IdentNext]_vars

----------------------------------------------------------------------------
(* The scenario of five paragraphs of which the fourth may be flagged       *)

\* the speakers of the scenario: the chair and a delegate
ScenarioKinds ==
  {[speaker |-> ChairX, multi |-> FALSE, off |-> FALSE],
   [speaker |-> DelegateX, multi |-> FALSE, off |-> FALSE]}

\* every attribution of the five paragraphs to the two speakers, the fourth
\* paragraph with or without has_multiple_speakers
ScenarioResponses ==
  {EntriesOf([i \in 1..5 |->
               [speaker |-> kinds[i].speaker, multi |-> (i = 4 /\ flag), off |-> FALSE]]) :
     kinds \in [1..5 -> ScenarioKinds], flag \in BOOLEAN}

ScenarioInit == IdentStart({RawParagraphs(5)})

ScenarioAssignment == AssignmentReturnsFrom(ScenarioResponses)

ScenarioNext ==
  \/ identifySpeakers
  \/ ScenarioAssignment
  \/ \E k \in DOMAIN completions.reseg : ResegmentationSettles(k)

ScenarioSpec == ScenarioInit /\ [][ScenarioNext]_vars

----------------------------------------------------------------------------
(* A split of the first paragraph with the segment list that the           *)
(* completion service chooses                                              *)

\* largest number of segments of a resegmentation response
MaxSegments == 3

\* segment texts of normalized length 0, 0, 1, 2, 3 and 5; the fifth is the
\* text of the first raw paragraph
SegmentTexts ==
  {<<>>, <<"-">>, <<"A">>, <<"A", "b">>, RawParagraph(1).text,
   <<"a", "b", "c", " ", "d", "e">>}

\* the segments a response may list: the Chair, or the delegate for the
\* longest text
SplitSegments ==
  {Segment(text, IF Len(text) = 6 THEN DelegateX ELSE ChairX) : text \in SegmentTexts}

RECURSIVE SegmentLists(_)
\* the lists of at most n segments
SegmentLists(n) ==
  IF n = 0 THEN {<<>>}
  ELSE LET shorter == SegmentLists(n - 1)
       IN  shorter \cup {Append(l, seg) : l \in {x \in shorter : Len(x) = n - 1},
                                          seg \in SplitSegments}

\* should_split = true with high confidence and any of the segment lists
SplitResponses == {Resegmentation(TRUE, "high", segs) : segs \in SegmentLists(MaxSegments)}

\* the first paragraph is flagged (on or off the record), a second is not
SplitAssignResponses(n) ==
  {EntriesOf([i \in 1..n |-> IF i = 1 THEN first
                                      ELSE [speaker |-> DelegateX, multi |-> FALSE, off |-> FALSE]]) :
     first \in FlaggedKinds}

SplitInit == IdentStart({RawParagraphs(1), RawParagraphs(2)})

SplitAssignment == AssignmentReturnsFrom(SplitAssignResponses(Len(paragraphs)))

SplitSettles(k) == \E response \in SplitResponses : ResegmentationReturns(k, response)

SplitNext ==
  \/ identifySpeakers
  \/ SplitAssignment
  \/ \E k \in DOMAIN completions.reseg : SplitSettles(k)

SplitSpec == SplitInit /\ [][SplitNext]_vars

----------------------------------------------------------------------------
(* The topic block of identifySpeakers, from the consolidated transcripts  *)
(* that assignments without a flagged paragraph lead to                    *)

TopicKinds ==
  {[speaker |-> ChairX, multi |-> FALSE, off |-> FALSE],
   [speaker |-> PresidentY, multi |-> FALSE, off |-> FALSE],
   [speaker |-> DelegateX, multi |-> FALSE, off |-> FALSE],
   [speaker |-> Unknown, multi |-> FALSE, off |-> FALSE],
   [speaker |-> Unknown, multi |-> FALSE, off |-> TRUE]}

TopicInit ==
  /\ RunInIdentify
  /\ \E n \in 1..MaxParagraphs : \E kinds \in [1..n -> TopicKinds] :
       LET t == [paragraphs |-> RawParagraphs(n),
                 mapping |-> BuildMapping(EntriesOf(kinds), EmptyMapping)]
           f == FilterOffRecord(t).out
           g == GroupSpeakers(f).out
       IN  /\ paragraphs = t.paragraphs
           /\ parsed = EntriesOf(kinds)
           /\ rebuilt = t
           /\ filtered = f
           /\ finalParagraphs = g.paragraphs
           /\ finalMapping = g.mapping
  /\ step = "topics"
  /\ resegmented = <<>>
  /\ topicsRecord = NoTopics
  /\ paragraphTopics = NoTags
  /\ completions = NoCompletions
  /\ thrown = NULL

\* if (finalParagraphs.length > 0) try { topics = await defineTopics(...) ...:
\* defineTopics up to its completion call; with too few statements no call is
\* made and tagParagraphsWithTopics returns {} for the empty topic set
defineTopics ==
  /\ step = "topics"
  /\ step' = IF finalParagraphs = <<>>
                  \/ TooFewStatements(Cardinality(Substantive(finalParagraphs, finalMapping)))
               THEN "returned" ELSE "defining"
  /\ UNCHANGED <<pipeline, table, paragraphs, parsed, resegmented, rebuilt, filtered, finalParagraphs,
                 finalMapping, topicsRecord, paragraphTopics, completions, thrown>>

\* the topic-definition call returns; a failure is caught by identifySpeakers;
\* otherwise the tagging tasks are started, those of chairs resolve at once
DefineTopicsReturns ==
  /\ step = "defining"
  /\ \E response \in TopicResponses :
       LET record == IF response.content = "json"
                       THEN ToRecord(response.topics, NoTopics) ELSE NoTopics
           tagging == response.content = "json" /\ DOMAIN record # {}
           substantive == IF tagging THEN Substantive(finalParagraphs, finalMapping) ELSE {}
       IN  /\ topicsRecord' = record
           /\ step' = IF tagging THEN "tagging" ELSE "returned"
           /\ completions' =
                [completions EXCEPT
                   !.define = <<response>>,
                   !.tagged = substantive,
                   !.tag = [idx \in substantive |-> Pending]]
  /\ UNCHANGED <<pipeline, table, paragraphs, parsed, resegmented, rebuilt, filtered,
                 finalParagraphs, finalMapping, paragraphTopics, thrown>>

\* the code after await Promise.all(taggingTasks): results.forEach(...)
TaggingJoin(responses) ==
  paragraphTopics' =
    [idx \in 0..(Len(finalParagraphs) - 1) |->
       IF isChair(At(finalMapping, idx)) \/ idx \notin DOMAIN responses
         THEN <<>>
         ELSE TagTask(responses[idx]).topic_keys]

\* the completion call of the tagging task of statement idx returns.  A task
\* that throws rejects Promise.all at once, which the try/catch of
\* identifySpeakers absorbs; the task that settles last lets
\* tagParagraphsWithTopics return.
TaggingSettles(idx) ==
  /\ step = "tagging"
  /\ completions.tag[idx] = Pending
  /\ \E response \in TagResponses :
       LET responses == [completions.tag EXCEPT ![idx] = response] IN
         /\ completions' = [completions EXCEPT !.tag = responses]
         /\ IF TagTask(response).throws
              THEN step' = "returned" /\ paragraphTopics' = NoTags
            ELSE IF PromiseAll(responses)
              THEN step' = "returned" /\ TaggingJoin(responses)
            ELSE UNCHANGED <<step, paragraphTopics>>
  /\ UNCHANGED <<pipeline, table, paragraphs, parsed, resegmented, rebuilt, filtered,
                 finalParagraphs, finalMapping, topicsRecord, thrown>>

TopicNext ==
  \/ defineTopics
  \/ DefineTopicsReturns
  \/ \E idx \in completions.tagged : TaggingSettles(idx)

\* stage 4.5 of one identifySpeakers call
TopicSpec == TopicInit /\ [][TopicNext]_vars

----------------------------------------------------------------------------
(* One identifySpeakers call from its start to its return or its throw and *)
(* the catch block of runPipeline, for transcripts of one or two paragraphs *)

StagesInit == IdentStart({RawParagraphs(1), RawParagraphs(2)})

StagesNext ==
  \/ IdentNext
  \/ TopicNext
  \/ IdentifyThrows("w1")
  \/ RunCatchStatus("w1")
  \/ RunCatchRelease("w1")

StagesSpec == StagesInit /\ [][StagesNext]_vars

----------------------------------------------------------------------------
(* Properties *)

\* run w is between its successful tryAcquirePipelineLock and its
\* releasePipelineLock
Holding(w) == pc[w] \in RunPcs

ErrorPathPcs == {"r_catch", "r_catch_release"} \cup HandlerPcs

Terminal == {"completed", "error"}

Successor ==
  {<<"transcribing", "transcribed">>, <<"transcribed", "identifying_speakers">>,
   <<"identifying_speakers", "analyzing_topics">>, <<"analyzing_topics", "completed">>}

\* C1: at every moment at most one pipeline run is between its successful
\* tryAcquirePipelineLock and its releasePipelineLock.
C1_SingleHolder == Cardinality({w \in Workers : Holding(w)}) <= 1

\* C2: when two (or more) tryAcquirePipelineLock calls are issued together on
\* a record whose lock is absent, then once all of them have returned exactly
\* one has returned true and the others false, in every order of execution.
C2_ExactlyOneAcquires ==
  (InFlight = {} /\ Cardinality(Returned) >= 2 /\ call.start = NoLock)
    => Cardinality({c \in Callers : call.st[c] = "true"}) = 1

\* two calls issued together on an unlocked record have both returned
C2_Witness ==
  /\ InFlight = {} /\ Cardinality(Returned) = 2 /\ call.start = NoLock
  /\ \E c, d \in Returned : call.st[c] = "true" /\ call.st[d] = "false"

\* C3: a tryAcquirePipelineLock call succeeds if and only if the marker is
\* absent or older than the timeout; on success the marker becomes the
\* caller's current timestamp, on failure it is left unchanged.
C3_AcquireIffAbsentOrStale ==
  [][\A w \in Workers :
       (pc[w] = "p_acquire" /\ pc'[w] # "p_acquire") =>
         LET old == pipeline_lock = NoLock
                      \/ pipeline_lock[1] < Now - PIPELINE_LOCK_TIMEOUT
         IN  /\ (pc'[w] = "r_ident") <=> old
             /\ old => pipeline_lock' = <<Now>>
             /\ ~old => pipeline_lock' = pipeline_lock]_vars

\* a caller has just taken over the stale marker of a run whose process stopped
C3_Witness ==
  \E w, v \in Workers :
    pc[v] = "crashed" /\ pc[w] = "r_ident" /\ pipeline_lock = <<Now>>

C5_LegalTransitions ==
  [][status' # status =>
       \/ <<status, status'>> \in Successor
       \/ status \notin Terminal /\ status' = "error"]_vars

\* C6: once the stored status is completed or error, no step of a
\* pollTranscription call or of a pipeline run changes it.
C6_TerminalStable ==
  [][(status \in Terminal /\ \E w \in Workers : WorkerStep(w)) => status' = status]_vars

\* C7: after the process of a run has stopped, repeated polling eventually
\* brings the transcript to completed or error.
C7_CrashRecovery ==
  \A w \in Workers : (pc[w] = "crashed") ~> (status \in Terminal)

\* C8: a retry of a transcript in error whose record holds the raw paragraphs
\* starts a pipeline run on the stored paragraphs (it goes on to acquire the
\* lock).
C8_RetryResumes ==
  [][\A w \in Workers :
       (pc[w] = "p_retry" /\ pc'[w] # "p_retry"
          /\ status = "error" /\ content.raw_paragraphs)
         => pc'[w] \in {"p_acquire"} \cup RunPcs]_vars

\* C9: after a failure of the speaker-assignment call (the call fails, has no
\* content, or is unparsable) the run is on its error path and never marks the
\* transcript completed, the status becomes error with the message of the
\* failure, and the lock is released.
C9_AssignFailureFatal ==
  \A w \in Workers :
    /\ [](assign[w] \in AssignFailures => pc[w] \in ErrorPathPcs /\ err[w] = assign[w])
    /\ (pc[w] = "r_catch" /\ assign[w] \in AssignFailures) ~>
         (pc[w] = "r_catch_release" /\ status = "error" /\ error_message = assign[w])
    /\ (pc[w] = "r_catch" /\ assign[w] \in AssignFailures) ~>
         (pc[w] = "h_both" /\ pipeline_lock = NoLock)

\* the catch block has stored the message of an unparsable assignment response
C9_Witness ==
  \E w \in Workers :
    /\ assign[w] = MsgSyntax /\ pc[w] = "r_catch_release"
    /\ status = "error" /\ error_message = MsgSyntax

----------------------------------------------------------------------------
(* Properties of identifySpeakers *)

\* the tag set recorded for statement idx
TagsOf(idx) == IF idx \in DOMAIN paragraphTopics THEN paragraphTopics[idx] ELSE <<>>

\* C11: a failure of the tagging call of one statement (rejected request, no
\* content, unparsable content) gives that statement the empty tag set, every
\* other statement keeps the keys its own call returned, and identifySpeakers
\* returns without an exception.
C11_TagFailureIsolated ==
  (step = "returned" /\ completions.tagged # {}) =>
    /\ thrown = NULL
    /\ \A idx \in completions.tagged :
         TagsOf(idx) = IF completions.tag[idx].content = "json"
                         THEN completions.tag[idx].topic_keys
                         ELSE <<>>

\* one tagging call was rejected, another returned a key
C11_Witness ==
  /\ step = "returned"
  /\ \E i, j \in completions.tagged :
       /\ completions.tag[i] = Rejected /\ TagsOf(i) = <<>>
       /\ completions.tag[j] = ParagraphTopicTags(<<"k1">>) /\ TagsOf(j) = <<"k1">>

\* the response tells to keep the paragraph: refused by the content filter,
\* should_split = false, or confidence low
TellsUnsplit(response) ==
  \/ response.content = "none" /\ response.finish_reason = "content_filter"
  \/ response.content = "json" /\ (~response.should_split \/ response.confidence = "low")

\* C12: a flagged paragraph whose resegmentation response is a content-filter
\* refusal, has should_split = false or has confidence low comes back as one
\* segment, the input paragraph itself, with its stage-4.2 attribution; when
\* every response is of that kind the run goes on to the topic block.
C12_KeptUnsplit ==
  completions.reseg # <<>> =>
    /\ (\A k \in DOMAIN completions.reseg : TellsUnsplit(completions.reseg[k]))
         => step = "topics" /\ thrown = NULL
    /\ \A k \in DOMAIN resegmented :
         TellsUnsplit(completions.reseg[k]) =>
           LET idx == toResegment(parsed)[k] IN
             /\ resegmented[k].segments = <<paragraphs[idx + 1]>>
             /\ resegmented[k].speakers = <<At(BuildMapping(parsed, EmptyMapping), idx)>>

\* three flagged paragraphs were kept: one refused by the content filter, one
\* with should_split = false, one split with low confidence
C12_Witness ==
  /\ step = "topics"
  /\ Len(rebuilt.paragraphs) = Len(paragraphs)
  /\ \E a, b, c \in DOMAIN completions.reseg :
       /\ completions.reseg[a].content = "none"
       /\ completions.reseg[b].content = "json" /\ ~completions.reseg[b].should_split
       /\ completions.reseg[c].content = "json" /\ completions.reseg[c].should_split
       /\ completions.reseg[c].confidence = "low"

\* C13: an assignment response is accepted (the run goes on to resegmentation
\* or to the topic block) only if it lists every index of [0, n) exactly once.
C13_Coverage ==
  step \in {"resegmenting", "topics"} =>
    \A i \in 0..(Len(paragraphs) - 1) :
      Cardinality({k \in DOMAIN parsed : parsed[k].index = i}) = 1

RECURSIVE AllWords(_)
\* the words of a sequence of paragraphs, in order
AllWords(paras) ==
  IF paras = <<>> THEN <<>> ELSE Head(paras).words \o AllWords(Tail(paras))

\* the original paragraphs that stage 4.2 did not mark off-record
OnRecordOriginals ==
  LET mapping == BuildMapping(parsed, EmptyMapping)
      Keep(p) == \E i \in DOMAIN paragraphs :
                   paragraphs[i] = p /\ ~OffRecord(At(mapping, i - 1))
  IN  SelectSeq(paragraphs, Keep)

\* C14: when identifySpeakers gets through the consolidation, the normalized
\* text of the words of the final statements, in order, is the normalized text
\* of the words of the original paragraphs not marked off-record, in order.
C14_ContentPreserved ==
  step = "topics" =>
    normalizeText(WordsText(AllWords(finalParagraphs)))
      = normalizeText(WordsText(AllWords(OnRecordOriginals)))

\* (name, function, affiliation, group)
Tuple(speaker) == <<speaker.name, speaker.function, speaker.affiliation, speaker.group>>

\* C15: the final statements are the maximal runs of consecutive paragraphs
\* of the filtered sequence with equal (name, function, affiliation, group):
\* a statement starts exactly where the tuple changes, holds the words of its
\* run in order under the tuple of the run, and no two adjacent statements
\* have the same tuple.
C15_GroupingMaximal ==
  (step = "topics" /\ filtered.paragraphs # <<>>
     /\ \A i \in 0..(Len(filtered.paragraphs) - 1) : At(filtered.mapping, i) # Undefined) =>
    LET n == Len(filtered.paragraphs)
        starts == {0} \cup {i \in 1..(n - 1) :
                              Tuple(filtered.mapping[i - 1]) # Tuple(filtered.mapping[i])}
        Rank(i) == Cardinality({j \in starts : j < i})
        EndOf(i) == IF \E j \in starts : j > i
                      THEN CHOOSE j \in starts : j > i /\ \A h \in starts : h > i => j <= h
                      ELSE n
    IN  /\ Len(finalParagraphs) = Cardinality(starts)
        /\ \A i \in starts :
             /\ finalParagraphs[Rank(i) + 1].words
                  = AllWords(SubSeq(filtered.paragraphs, i + 1, EndOf(i)))
             /\ Tuple(finalMapping[Rank(i)]) = Tuple(filtered.mapping[i])
        /\ \A k \in 0..(Len(finalParagraphs) - 2) :
             Tuple(finalMapping[k]) # Tuple(finalMapping[k + 1])

\* Chair X and Delegate X (equal names) stay apart, two paragraphs of unknown
\* speakers (all fields null) are merged
C15_Witness ==
  /\ step = "topics"
  /\ Len(filtered.paragraphs) = 4 /\ Len(finalParagraphs) = 3
  /\ Tuple(finalMapping[0]) = Tuple(ChairX)
  /\ Tuple(finalMapping[1]) = Tuple(DelegateX)
  /\ Tuple(finalMapping[2]) = Tuple(Unknown)
  /\ Len(finalParagraphs[3].words) = 6

\* C16: the filtered sequence is the rebuilt sequence without the paragraphs
\* whose attribution has is_off_record set, in the same order, indexed from 0
\* without gaps, each with its attribution; no attribution of the final
\* mapping has is_off_record set.
C16_OffRecordFilter ==
  step = "topics" =>
    LET kept == {i \in 0..(Len(rebuilt.paragraphs) - 1) : ~OffRecord(At(rebuilt.mapping, i))}
        Rank(i) == Cardinality({j \in kept : j < i})
        Same(a, b) == IF a = Undefined \/ b = Undefined THEN a = b ELSE Tuple(a) = Tuple(b)
    IN  /\ Len(filtered.paragraphs) = Cardinality(kept)
        /\ \A i \in kept :
             /\ filtered.paragraphs[Rank(i) + 1] = rebuilt.paragraphs[i + 1]
             /\ Same(At(filtered.mapping, Rank(i)), At(rebuilt.mapping, i))
        /\ \A k \in DOMAIN filtered.mapping : k \in 0..(Cardinality(kept) - 1)
        /\ \A k \in DOMAIN finalMapping : ~OffRecord(finalMapping[k])

\* an off-record paragraph was removed from in front of two on-record ones
C16_Witness ==
  /\ step = "topics"
  /\ Len(rebuilt.paragraphs) = 3 /\ Len(filtered.paragraphs) = 2
  /\ OffRecord(rebuilt.mapping[0])
  /\ filtered.paragraphs[1] = rebuilt.paragraphs[2]
  /\ "is_off_record" \notin DOMAIN filtered.mapping[0]

\* C17: the paragraphs that the off-record filter removes form a prefix
\* and/or a suffix of the rebuilt sequence: none of them has an on-record
\* paragraph before it and another after it.
C17_OffRecordAtEdges ==
  step = "topics" =>
    LET all == 0..(Len(rebuilt.paragraphs) - 1)
        removed == {i \in all : OffRecord(At(rebuilt.mapping, i))}
    IN  \A i \in removed :
          ~(\E a, b \in all \ removed : a < i /\ i < b)

\* the function field contains the word, whatever the case of its letters
ContainsWord(function, word) ==
  \E offset \in 0..(Len(function) - Len(word)) :
    \A j \in 1..Len(word) : LowerChar(function[offset + j]) = word[j]

\* the statement is of a chair, a president or a moderator
ChairLike(speaker) ==
  /\ speaker # Undefined
  /\ \E word \in {Str_chair, Str_president, Str_moderator} : ContainsWord(speaker.function, word)

\* C18: for a statement whose function contains chair, president or moderator
\* in any case, no tagging call is issued and its tag set is empty.
C18_ChairExclusion ==
  \A idx \in 0..(Len(finalParagraphs) - 1) :
    ChairLike(At(finalMapping, idx)) =>
      /\ idx \notin completions.tagged
      /\ idx \notin DOMAIN completions.tag
      /\ TagsOf(idx) = <<>>

\* the statement of a PRESIDENT has no tags between two tagged statements
C18_Witness ==
  /\ step = "returned"
  /\ \E i, j, k \in DOMAIN paragraphTopics :
       /\ finalMapping[i].function = Fn_PRESIDENT /\ paragraphTopics[i] = <<>>
       /\ i \notin completions.tagged
       /\ j # k /\ paragraphTopics[j] # <<>> /\ paragraphTopics[k] # <<>>

\* number of statements that are not of a chair
NonChairCount ==
  Cardinality({idx \in 0..(Len(finalParagraphs) - 1) : ~ChairLike(At(finalMapping, idx))})

\* C19: with fewer than 2 statements that are not of a chair, no completion
\* call is issued by the topic block (neither definition nor tagging), topics
\* and tags stay empty, and identifySpeakers does not throw.
C19_TooFewStatements ==
  (step \in {"topics", "defining", "tagging", "returned"} /\ NonChairCount < 2) =>
    /\ step \in {"topics", "returned"}
    /\ completions = NoCompletions
    /\ topicsRecord = NoTopics
    /\ paragraphTopics = NoTags
    /\ thrown = NULL

\* the topic block was skipped for one delegate between two chairs
C19_Witness ==
  /\ step = "returned"
  /\ Len(finalParagraphs) = 3
  /\ NonChairCount = 1
  /\ completions = NoCompletions /\ topicsRecord = NoTopics /\ paragraphTopics = NoTags

\* C20: the tag set recorded for a statement has at most 3 keys, and each of
\* them is a key of the topics defined for the transcript.
C20_TagsAreTopicKeys ==
  \A idx \in DOMAIN paragraphTopics :
    /\ Len(paragraphTopics[idx]) <= 3
    /\ \A j \in DOMAIN paragraphTopics[idx] : paragraphTopics[idx][j] \in DOMAIN topicsRecord

\* C21: when tryAcquirePipelineLock returns false inside pollTranscription,
\* the call starts no run, writes nothing to the record and returns the stage
\* identifying_speakers (not error, and no exception); and a worker enters a
\* pipeline run only in the step of a poll whose tryAcquirePipelineLock
\* returned true.
C21_ContentionIsNoError ==
  [][\A w \in Workers :
       LET acquired == tryAcquirePipelineLock(pipeline_lock).acquired IN
         /\ (pc[w] = "p_acquire" /\ pc'[w] # "p_acquire" /\ ~acquired) =>
              /\ pc'[w] = "idle"
              /\ store' = store
              /\ returned'[w] = "identifying_speakers"
         /\ (pc[w] \notin RunPcs /\ pc'[w] \in RunPcs) =>
              pc[w] = "p_acquire" /\ acquired /\ pc'[w] = "r_ident"]_vars

\* a poll has returned from contention while the run of the other worker
\* holds the lock and has not yet changed the status
C21_Witness ==
  \E w, v \in Workers :
    /\ pc[v] = "r_ident" /\ pipeline_lock = <<Now>> /\ status = "transcribed"
    /\ pc[w] = "idle" /\ returned[w] = "identifying_speakers"

\* C22: when a run sets the status to completed, the content of the record
\* holds the statements of that run.
C22_OutputStored ==
  [][\A w \in Workers :
       (pc[w] = "r_complete" /\ pc'[w] = "r_release") =>
         status' = "completed" /\ content'.statements = w]_vars

\* C23: a request to the speech service that fails during a poll of a
\* transcribing transcript (the call ends with the exception) moves the
\* status to error.
C23_PollFailureStored ==
  [][\A w \in Workers :
       (pc[w] = "p_assembly" /\ returned'[w] = "thrown") => status' = "error"]_vars

\* C24: the raw paragraphs of the transcript are fetched and saved at most
\* once, also when several pollTranscription calls run concurrently.
C24_StoredOnce == stored <= 1

\* C26: a store statement of the poll or the run of one transcript leaves the
\* row of every other transcript as it was, and an acquisition succeeds
\* whatever the locks of the other transcripts are.
C26_Isolation ==
  [][\A t \in DOMAIN runner :
       runner'[t] # runner[t] =>
         /\ \A u \in DOMAIN transcripts \ {t} : transcripts'[u] = transcripts[u]
         /\ runner[t] = "p_acquire" => runner'[t] = "r_ident"]_vars

\* two runs hold the locks of their transcripts at the same time, a third
\* transcript is in error
C26_Witness ==
  /\ runner # <<>>
  /\ \E t, u, v \in DOMAIN runner :
       /\ t # u
       /\ runner[t] = "r_assign" /\ transcripts[t].pipeline_lock = <<Now>>
       /\ runner[u] = "r_assign" /\ transcripts[u].pipeline_lock = <<Now>>
       /\ transcripts[v].status = "error" /\ transcripts[v].pipeline_lock = NoLock

\* C25: five paragraphs, 0 to 2 of the chair, 4 of delegate X, and paragraph 3
\* split into a segment of the chair followed by a segment of delegate X:
\* consolidation gives exactly two statements, the chair's with the words of
\* paragraphs 0 to 2 and of the first segment, delegate X's with the words of
\* the second segment and of paragraph 4.
C25_SplitMergesAcrossBoundary ==
  (/\ step = "topics" /\ Len(paragraphs) = 5 /\ Len(resegmented) = 1
   /\ \A i \in 1..3 : Tuple(parsed[i]) = Tuple(ChairX)
   /\ Tuple(parsed[5]) = Tuple(DelegateX)
   /\ resegmented[1].index = 3 /\ Len(resegmented[1].segments) = 2
   /\ Tuple(resegmented[1].speakers[1]) = Tuple(ChairX)
   /\ Tuple(resegmented[1].speakers[2]) = Tuple(DelegateX))
  =>
    /\ Len(finalParagraphs) = 2
    /\ Tuple(finalMapping[0]) = Tuple(ChairX)
    /\ finalParagraphs[1].words
         = AllWords(SubSeq(paragraphs, 1, 3)) \o resegmented[1].segments[1].words
    /\ Tuple(finalMapping[1]) = Tuple(DelegateX)
    /\ finalParagraphs[2].words = resegmented[1].segments[2].words \o paragraphs[5].words
    /\ AllWords(finalParagraphs) = AllWords(paragraphs)

\* the scenario has been consolidated into its two statements
C25_Witness ==
  /\ step = "topics" /\ Len(paragraphs) = 5 /\ Len(resegmented) = 1
  /\ \A i \in 1..3 : Tuple(parsed[i]) = Tuple(ChairX)
  /\ Tuple(parsed[5]) = Tuple(DelegateX)
  /\ Len(resegmented[1].segments) = 2
  /\ Len(finalParagraphs) = 2
  /\ Len(finalParagraphs[1].words) = 10 /\ Len(finalParagraphs[2].words) = 5

\* no call of the set is out
AllReturned(responses) == \A k \in DOMAIN responses : responses[k] # Pending

\* C27: resegmentation calls are issued only after the assignment response
\* was parsed; the consolidation (and every later stage) is reached only when
\* no resegmentation call is out; the topic-definition call is issued on the
\* consolidated transcript; tagging calls are issued only after the
\* topic-definition call returned topics; and the topic block is left only
\* when no tagging call is out.
C27_StagesInOrder ==
  /\ completions.calls # <<>> => step \notin {"start", "assigning"} /\ parsed # <<>>
  /\ step \in {"topics", "defining", "tagging", "returned"} => AllReturned(completions.reseg)
  /\ step \in {"defining", "tagging"} =>
       /\ filtered = FilterOffRecord(rebuilt).out
       /\ finalParagraphs = GroupSpeakers(filtered).out.paragraphs
       /\ completions.define # <<>> \/ step = "defining"
  /\ completions.tagged # {} =>
       completions.define # <<>> /\ completions.define[1].content = "json"
  /\ step = "returned" => AllReturned(completions.tag)

\* a call with two resegmentation tasks and two tagging tasks has returned
C27_Witness ==
  /\ step = "returned"
  /\ Len(completions.reseg) = 2
  /\ Cardinality(completions.tagged) = 2
  /\ \A idx \in completions.tagged : completions.tag[idx].content = "json"

\* C28: after the join the rebuilt sequence is, for the original paragraphs in
\* index order, the paragraph itself with its stage-4.2 attribution when it
\* was not flagged, and otherwise the segments and speakers that
\* resegmentParagraph gives for this paragraph, its stage-4.2 attribution and
\* the response of its own call, in segment order; the keys of the mapping
\* are 0..m-1.  This holds whichever call returned last.
C28_RebuildInOrder ==
  (step = "topics" /\ completions.calls # <<>>) =>
    LET mapping == BuildMapping(parsed, EmptyMapping)
        n == Len(paragraphs)
        IsFlagged(i) == \E k \in DOMAIN completions.calls : completions.calls[k] = i
        TaskOf(i) == CHOOSE k \in DOMAIN completions.calls : completions.calls[k] = i
        Own(i) == resegmentParagraph(paragraphs[i + 1], At(mapping, i),
                                     completions.reseg[TaskOf(i)])
        part == [i \in 0..(n - 1) |->
                  IF IsFlagged(i)
                    THEN LET own == Own(i)
                         IN  [paragraphs |-> own.segments, speakers |-> own.speakers]
                    ELSE [paragraphs |-> <<paragraphs[i + 1]>>, speakers |-> <<At(mapping, i)>>]]
        offset[i \in 0..n] == IF i = 0 THEN 0 ELSE offset[i - 1] + Len(part[i - 1].paragraphs)
    IN  /\ Len(rebuilt.paragraphs) = offset[n]
        /\ DOMAIN rebuilt.mapping = 0..(offset[n] - 1)
        /\ \A i \in 0..(n - 1) : \A j \in 1..Len(part[i].paragraphs) :
             /\ rebuilt.paragraphs[offset[i] + j] = part[i].paragraphs[j]
             /\ rebuilt.mapping[offset[i] + j - 1] = part[i].speakers[j]

\* two paragraphs were split, the call of the first returned after the call
\* of the second
C28_Witness ==
  /\ step = "topics"
  /\ Len(completions.calls) = 2 /\ completions.last = 1
  /\ Len(resegmented[1].segments) = 2 /\ Len(resegmented[2].segments) = 2
  /\ Len(rebuilt.paragraphs) = Len(paragraphs) + 2

\* C29: while a resegmentation call is out, identifySpeakers is waiting for
\* the task set: it has not gone on, the run has not stored the status error
\* and has not released the lock.
C29_NoEarlyExit ==
  (\E k \in DOMAIN completions.reseg : completions.reseg[k] = Pending) =>
    /\ step = "resegmenting"
    /\ status # "error"
    /\ pipeline_lock # NoLock

\* C30: the resegmentation calls are issued for exactly the indices that the
\* assignment flagged has_multiple_speakers, one call each; and every other
\* paragraph is in the rebuilt sequence exactly once, as it was, with its
\* stage-4.2 attribution.
C30_OnlyFlaggedResegmented ==
  LET flagged == {parsed[j].index : j \in {h \in DOMAIN parsed : parsed[h].has_multiple_speakers}}
      mapping == BuildMapping(parsed, EmptyMapping)
  IN  /\ {completions.calls[k] : k \in DOMAIN completions.calls} = flagged
      /\ Len(completions.calls) = Cardinality(flagged)
      /\ step = "topics" =>
           \A i \in (0..(Len(paragraphs) - 1)) \ flagged :
             \E j \in DOMAIN rebuilt.paragraphs :
               /\ rebuilt.paragraphs[j] = paragraphs[i + 1]
               /\ At(rebuilt.mapping, j - 1) = At(mapping, i)
               /\ \A h \in DOMAIN rebuilt.paragraphs :
                    rebuilt.paragraphs[h] = paragraphs[i + 1] => h = j

\* of three paragraphs the second was flagged and split, the others are kept
C30_Witness ==
  /\ step = "topics"
  /\ Len(paragraphs) = 3 /\ completions.calls = <<1>>
  /\ Len(rebuilt.paragraphs) = 4
  /\ rebuilt.paragraphs[1] = paragraphs[1] /\ rebuilt.paragraphs[4] = paragraphs[3]

\* the split of a flagged paragraph: the task, its paragraph and the segment
\* list of its response, when the response asks for a split that is applied
SplitTasks ==
  {k \in DOMAIN completions.reseg :
     /\ k \in DOMAIN resegmented
     /\ completions.reseg[k].content = "json"
     /\ ~KeepsUnsplit(completions.reseg[k])}

\* the normalized length of the words a+1..b of the paragraph of task k
RunLength(k, a, b) ==
  Len(normalizeText(WordsText(SubSeq(paragraphs[completions.calls[k] + 1].words, a + 1, b))))

\* the end of the shortest run of words after offset a whose normalized
\* length is at least length, or the end of the paragraph
GreedyEnd(k, a, length) ==
  LET n == Len(paragraphs[completions.calls[k] + 1].words)
      long == {e \in a..n : RunLength(k, a, e) >= length}
  IN  IF long = {} THEN n ELSE CHOOSE e \in long : \A h \in long : e <= h

\* C31: the segments of a split are the non-empty runs of words that the
\* returned segments receive in order, each the shortest run of the words not
\* yet consumed whose normalized text is at least as long as the normalized
\* text of the segment, or all remaining words; start is the start of the
\* first word of the run and end the end of its last word.
C31_GreedyByLength ==
  \A k \in SplitTasks :
    LET segs == completions.reseg[k].segments
        all == paragraphs[completions.calls[k] + 1].words
        ends[j \in 0..Len(segs)] ==
          IF j = 0 THEN 0
          ELSE GreedyEnd(k, ends[j - 1], Len(normalizeText(segs[j].text)))
        kept == SelectSeq([j \in 1..Len(segs) |-> j], LAMBDA j : ends[j] > ends[j - 1])
        out == resegmented[k].segments
    IN  /\ Len(out) = Len(kept)
        /\ \A i \in 1..Len(kept) :
             /\ out[i].words = SubSeq(all, ends[kept[i] - 1] + 1, ends[kept[i]])
             /\ out[i].start = all[ends[kept[i] - 1] + 1].start
             /\ out[i].end = all[ends[kept[i]]].end

\* a response of two segments: the first is as long as the first word, the
\* second longer than everything that is left, and gets the two other words
C31_Witness ==
  /\ step = "topics"
  /\ SplitTasks = {1}
  /\ Len(completions.reseg[1].segments) = 2
  /\ Len(normalizeText(completions.reseg[1].segments[1].text)) = 2
  /\ Len(normalizeText(completions.reseg[1].segments[2].text)) = 5
  /\ Len(resegmented[1].segments) = 2
  /\ Len(resegmented[1].segments[1].words) = 1
  /\ Len(resegmented[1].segments[2].words) = 2

\* C32: every flagged paragraph whose task returned comes back with at least
\* one segment, so it has a place in the rebuilt sequence.
C32_AtLeastOneSegment ==
  \A k \in DOMAIN resegmented : Len(resegmented[k].segments) >= 1

\* C36: when identifySpeakers gets through the consolidation, no word of a
\* paragraph that stage 4.2 marked is_off_record is a word of a final statement.
C36_OffRecordWordsRemoved ==
  step = "topics" =>
    LET mapping == BuildMapping(parsed, EmptyMapping)
        final == AllWords(finalParagraphs)
    IN  \A i \in DOMAIN paragraphs :
          OffRecord(At(mapping, i - 1)) =>
            \A a \in DOMAIN paragraphs[i].words : \A b \in DOMAIN final :
              final[b] # paragraphs[i].words[a]

\* C38: the segments of a split have one speaker each and at least one word
\* each, and their words, one segment after the other, are the first words of
\* the paragraph in their order.
C38_SegmentsPartitionPrefix ==
  \A k \in SplitTasks :
    LET out == resegmented[k]
        all == paragraphs[completions.calls[k] + 1].words
        words == AllWords(out.segments)
    IN  /\ Len(out.segments) = Len(out.speakers)
        /\ \A j \in DOMAIN out.segments : Len(out.segments[j].words) >= 1
        /\ Len(words) <= Len(all)
        /\ words = SubSeq(all, 1, Len(words))

\* a response of three segments, the second without a letter or digit: two
\* segments come back, the first word and the two words after it
C38_Witness ==
  /\ step = "topics"
  /\ SplitTasks = {1}
  /\ Len(completions.reseg[1].segments) = 3
  /\ Len(resegmented[1].segments) = 2 /\ Len(resegmented[1].speakers) = 2
  /\ resegmented[1].segments[1].words = SubSeq(paragraphs[1].words, 1, 1)
  /\ resegmented[1].segments[2].words = SubSeq(paragraphs[1].words, 2, 3)

\* C33: a releasePipelineLock call of worker w (at the end of its run, in the
\* catch block, or in the handler of pollTranscription) that clears a marker
\* clears the marker that the run of w set.
C33_ReleasesOwnMarker ==
  [][\A w \in Workers :
       (/\ pc[w] \in {"r_release", "r_catch_release", "h_both", "h_release"}
        /\ pc'[w] # pc[w]
        /\ pipeline_lock # NoLock
        /\ pipeline_lock' = NoLock) => holder = w]_vars

C35_LockColumnFrame ==
  [][\A t \in DOMAIN runner \cap DOMAIN transcripts :
       transcripts'[t] # transcripts[t] =>
         IF runner'[t] \in {"saveTranscript", "updateTranscriptStatus", "updateTranscriptContent"}
           THEN transcripts'[t].pipeline_lock = transcripts[t].pipeline_lock
           ELSE /\ runner'[t] \in {"tryAcquirePipelineLock", "releasePipelineLock"}
                /\ transcripts'[t].status = transcripts[t].status
                /\ transcripts'[t].content = transcripts[t].content
                /\ transcripts'[t].error_message = transcripts[t].error_message]_vars

\* a row that holds a marker was saved with new content, and then stored as
\* failed, and still holds the marker
C35_Witness ==
  /\ runner # <<>>
  /\ \E t \in DOMAIN runner \cap DOMAIN transcripts :
       /\ runner[t] = "updateTranscriptStatus"
       /\ transcripts[t].pipeline_lock = <<Now>>
       /\ transcripts[t].status = "error" /\ transcripts[t].error_message = MsgStore
       /\ transcripts[t].content = TranscriptContent(TRUE, Nothing, Nothing)

\* C37: once a forced re-transcription of an entry has deleted its transcripts
\* and stored the new one, the deleted transcripts stay out of the table.
C37_DeletedStaysDeleted ==
  \A t \in DOMAIN runner :
    NewId(EntryOf(t)) \in DOMAIN transcripts => t \notin DOMAIN transcripts

\* C39: a run that has stored the status identifying_speakers is followed by
\* a state in which the stored status is completed or error; the status does
\* not stay identifying_speakers.
C39_RunEndsTerminal ==
  \A w \in Workers :
    (pc[w] \in RunPcs /\ holder = w /\ status = "identifying_speakers") ~>
      (status \in Terminal)

====
